---- MODULE Spec2Model ----
(***************************************************************************)
(* PM2 manager: the routing layer (server/routers.ts) over the durable     *)
(* Config Store (server/db.ts) and the Fallback Store                      *)
(* (server/localStorage.ts), and the Socket.IO session manager and log     *)
(* tailer (server/socket.ts).                                              *)
(*                                                                         *)
(* Every await of the code is a suspension point: a handler is a chain of  *)
(* actions, one per continuation, and the handlers of different requests   *)
(* and sessions interleave between them.  A database query takes effect    *)
(* in the step in which its answer resumes the handler; a query of a       *)
(* configured database either succeeds or rejects (backend unreachable),   *)
(* which the step draws as ok \in BOOLEAN.                                  *)
(***************************************************************************)
EXTENDS Integers, Sequences, FiniteSets, TLC

\* ---------------------------------------------------------------- bounds
MaxProcs == 2          \* pm2 ids 0 .. MaxProcs-1
MaxGroupId == 2        \* group ids issued by either store: 1 .. MaxGroupId

\* JS null (and undefined) of a groupId; real group ids start at 1
NULL == 0

MaxTimers == 2         \* intervals that can be set at once
MaxCycles == 2         \* runs of fetchAndSendProcesses in flight at once
MaxBuses == 2          \* buses of pm2.launchBus open at once
MaxStreams == 2        \* runs of the logs:stream handler in flight at once
MaxIssued == 3         \* groups the Fallback Store creates, at most
MaxEvents == 2  \* log events the supervisor publishes, at most
MaxOver == 2           \* lines by which a log file exceeds the tail window, at most

Pm2Ids == 0 .. (MaxProcs - 1)
GroupIds == 1 .. MaxGroupId
Clients == {"c1", "c2"}
Callers == {"c1"}      \* one request at a time
Names == {"web"}
Colors == {"#3B82F6"}

VARIABLES
    dbUrl,          \* process.env.DATABASE_URL is set (getDb() returns a handle)
    taskGroups,     \* table task_groups: set of rows [id, name, color]
    taskGroupsAuto, \* task_groups AUTO_INCREMENT: the last id issued
    taskConfigs,    \* table task_configs: set of rows [pm2Id, groupId], pm2Id unique
    localData,      \* .pm2-manager-data.json: [groups, configs, nextGroupId]
    issuedLocal,    \* history: the ids createTaskGroupLocal has given to new groups, in order
    pm2List,        \* the supervisor's processes: pm_id -> "absent" | "online" | "stopped"
    reqs,           \* tRPC requests in flight: client -> [op, pc, ...]
    lastAssign,     \* history: pm_id -> [set, groupId, by] of the last completed updateGroup
    sock,           \* socket of a session: "none" | "connected" | "disconnected"
    monitorInterval,\* socket.data.monitorInterval: session -> timer id, or NoTimer
    timers,         \* the intervals set and not cleared: timer id -> owning session, or "none"
    cycles,         \* runs of fetchAndSendProcesses in flight: slot -> [pc, sess, from, processes, i,
                    \* appended (history: the pm2Ids whose insert this run has completed)]
    monStopped,     \* history: monitor:stop was handled and no monitor:start since
    performanceMetrics, \* table performance_metrics: set of rows [pm2Id] (equal rows kept once);
                    \* rows [pm2Id, timestamp] where the Config Store is called directly
    pm2Bus,         \* socket.data.pm2Bus: session -> bus id, or NoBus
    buses,          \* the buses of pm2.launchBus: bus id -> [st, sess, pm2Id] with its logHandler
    streams,        \* runs of the logs:stream handler in flight: slot -> [pc, sess, pm2Id, ...,
                    \* replayed (history: the [file, line] of every line the run has emitted)]
    logStopped,     \* history: logs:stop was handled and no logs:stream since
    logFiles,       \* the lines of the out and of the error log file of a process
    busFeed,        \* bus id -> the packets the bus has received and not yet dispatched
    busClock,       \* the number of log events the supervisor has published
    logInserts,     \* the insertLogEntry calls of logHandler not yet answered, in call order:
                    \* [bus, by, row, at]
    logEntries,     \* table log_entries: the pm2Ids of its rows (the rows are in out);
                    \* rows [pm2Id, timestamp] where the Config Store is called directly
    out             \* the events of the last step, in order: messages emitted or returned,
                    \* persistence calls made, commands handled

storeVars == <<dbUrl, taskGroups, taskGroupsAuto, taskConfigs, localData, issuedLocal, pm2List>>
rpcVars == <<reqs, lastAssign>>
monVars == <<monitorInterval, timers, cycles, monStopped>>
logVars == <<pm2Bus, buses, streams, logStopped, logFiles, busFeed, busClock, logInserts>>
sockVars == <<sock, monVars, performanceMetrics, logVars, logEntries>>
vars == <<storeVars, rpcVars, sockVars, out>>

Sessions == {"s1"}
TimerIds == 1 .. MaxTimers
CycleIds == 1 .. MaxCycles
\* socket.data.monitorInterval unset or null
NoTimer == 0
FreeSlot == [pc |-> "free"]
BusIds == 1 .. MaxBuses
StreamIds == 1 .. MaxStreams
\* socket.data.pm2Bus unset or null
NoBus == 0
Now == 0
FreeBus == [st |-> "free"]
\* const maxLines = 100
maxLines == 100

Idle == [op |-> "idle"]
NoOut == <<>>

\* ------------------------------------------------------- Config Store (db.ts)
\* getDb(): null when DATABASE_URL is unset
getDb == dbUrl

\* getAllTaskConfigs(): [] without a database; the rows otherwise
getAllTaskConfigs == IF ~getDb THEN {} ELSE taskConfigs

\* updateTaskConfigGroup(pm2Id, groupId): UPDATE ... WHERE pm2Id = pm2Id
updateTaskConfigGroup(rows, pm2Id, groupId) ==
    {IF c.pm2Id = pm2Id THEN [c EXCEPT !.groupId = groupId] ELSE c : c \in rows}

\* deleteTaskGroup, first query: UPDATE task_configs SET groupId = NULL WHERE groupId = id
deleteTaskGroupCascade(rows, id) ==
    {IF c.groupId = id THEN [c EXCEPT !.groupId = NULL] ELSE c : c \in rows}

\* upsertTaskConfig(config): update the row of config.pm2Id, or insert one
upsertTaskConfig(rows, config) ==
    IF \E c \in rows : c.pm2Id = config.pm2Id
    THEN {IF c.pm2Id = config.pm2Id THEN config ELSE c : c \in rows}
    ELSE rows \cup {config}

\* ------------------------------------------- Fallback Store (localStorage.ts)
\* loadData() of a missing file
EmptyData == [groups |-> <<>>, configs |-> <<>>, nextGroupId |-> 1]

\* getAllTaskConfigsLocal()
getAllTaskConfigsLocal == localData.configs

\* createTaskGroupLocal(group): id = nextGroupId++, push, save
createTaskGroupLocal(data, name, color) ==
    [data EXCEPT !.groups = Append(@, [id |-> data.nextGroupId, name |-> name, color |-> color]),
                 !.nextGroupId = @ + 1]

\* deleteTaskGroupLocal(id): null the assignments of id, drop the group, save
deleteTaskGroupLocal(data, id) ==
    [data EXCEPT
        !.configs = [i \in 1 .. Len(@) |->
                        IF @[i].groupId = id THEN [@[i] EXCEPT !.groupId = NULL] ELSE @[i]],
        !.groups = SelectSeq(@, LAMBDA g : g.id # id)]

\* variant of updateTaskConfigGroupLocal: the change is applied to a document read
\* before any other writer wrote (the empty one) and that is written back
updateTaskConfigGroupLocalStale(data, pm2Id, groupId) ==
    [data EXCEPT !.configs = <<[pm2Id |-> pm2Id, groupId |-> groupId]>>]

\* updateTaskConfigGroupLocal(pm2Id, groupId): set the entry of pm2Id, or push one
updateTaskConfigGroupLocal(data, pm2Id, groupId) ==
    IF \E i \in 1 .. Len(data.configs) : data.configs[i].pm2Id = pm2Id
    THEN [data EXCEPT !.configs = [i \in 1 .. Len(@) |->
                        IF @[i].pm2Id = pm2Id THEN [@[i] EXCEPT !.groupId = groupId] ELSE @[i]]]
    ELSE [data EXCEPT !.configs = Append(@, [pm2Id |-> pm2Id, groupId |-> groupId])]

\* ------------------------------------------------ Supervisor (pm2Service.ts)
RECURSIVE snapshotFrom(_)
snapshotFrom(p) ==
    IF p >= MaxProcs THEN <<>>
    ELSE (IF pm2List[p] = "absent" THEN <<>> ELSE <<[pm_id |-> p, status |-> pm2List[p]]>>)
         \o snapshotFrom(p + 1)

\* listProcesses(): one snapshot per process the supervisor knows, by pm_id
listProcesses == snapshotFrom(0)

\* ------------------------------------------------------------ Snapshot Merger
\* localConfig?.groupId / dbConfig?.groupId: NULL when there is no entry
localGroupId(localConfigs, p) ==
    LET found == SelectSeq(localConfigs, LAMBDA c : c.pm2Id = p)
    IN  IF found = <<>> THEN NULL ELSE Head(found).groupId

dbGroupId(dbConfigs, p) ==
    IF \E c \in dbConfigs : c.pm2Id = p
    THEN (CHOOSE c \in dbConfigs : c.pm2Id = p).groupId
    ELSE NULL

\* a ?? b: b when a is null or undefined
Coalesce(a, b) == IF a # NULL THEN a ELSE b

\* variant of the merge of processes.list: one where the Config Store takes priority
listGroupIdDbFirst(localConfigs, dbConfigs, p) ==
    Coalesce(Coalesce(dbGroupId(dbConfigs, p), localGroupId(localConfigs, p)), NULL)

\* processes.list: groupId: localConfig?.groupId ?? dbConfig?.groupId ?? null
listGroupId(localConfigs, dbConfigs, p) ==
    Coalesce(Coalesce(localGroupId(localConfigs, p), dbGroupId(dbConfigs, p)), NULL)

\* processes.list: processes.map(proc => ({...proc, groupId, config}))
processesListView(processes, dbConfigs, localConfigs) ==
    [i \in 1 .. Len(processes) |->
        [pm_id |-> processes[i].pm_id, status |-> processes[i].status,
         groupId |-> listGroupId(localConfigs, dbConfigs, processes[i].pm_id)]]

\* fetchAndSendProcesses: groupId: localConfig?.groupId ?? dbConfig?.groupId ?? null
monitorGroupId(localConfigs, dbConfigs, p) ==
    Coalesce(Coalesce(localGroupId(localConfigs, p), dbGroupId(dbConfigs, p)), NULL)

\* variant of the merge: an entry also for each process id that has an assignment in a
\* store and no snapshot
processesWithGroupsAndAssigned(processes, dbConfigs, localConfigs) ==
    LET known(p) == \E i \in 1 .. Len(processes) : processes[i].pm_id = p
        assigned(p) == \/ \E c \in dbConfigs : c.pm2Id = p
                       \/ \E i \in 1 .. Len(localConfigs) : localConfigs[i].pm2Id = p
        extra == SelectSeq([i \in 1 .. MaxProcs |-> i - 1],
                           LAMBDA p : assigned(p) /\ ~known(p))
    IN  [i \in 1 .. Len(processes) |->
            [pm_id |-> processes[i].pm_id, status |-> processes[i].status,
             groupId |-> Coalesce(localGroupId(localConfigs, processes[i].pm_id),
                                  dbGroupId(dbConfigs, processes[i].pm_id))]]
        \o [i \in 1 .. Len(extra) |->
               [pm_id |-> extra[i], status |-> "unknown",
                groupId |-> Coalesce(localGroupId(localConfigs, extra[i]),
                                     dbGroupId(dbConfigs, extra[i]))]]

\* fetchAndSendProcesses: processes.map(proc => ({...proc, groupId}))
processesWithGroups(processes, dbConfigs, localConfigs) ==
    [i \in 1 .. Len(processes) |->
        [pm_id |-> processes[i].pm_id, status |-> processes[i].status,
         groupId |-> monitorGroupId(localConfigs, dbConfigs, processes[i].pm_id)]]

\* ---------------------------------------------------------- routers.ts
IdleClient(c) == reqs[c].op = "idle"
Finish(c) == reqs' = [reqs EXCEPT ![c] = Idle]
CreatesInFlight == Cardinality({c \in Clients : reqs[c].op = "create"})
NoClaim == [set |-> FALSE, groupId |-> NULL, by |-> "none"]
GroupNames == {"web", "api"}
\* no group in either store
NoGroups == taskGroups = {} /\ localData.groups = <<>>
\* groups.create returns a group; history: the caller holds it until its next request,
\* fresh tells that there was no group when the request started
Created(c, group, fresh) ==
    reqs' = [reqs EXCEPT ![c] = [op |-> "created", group |-> group, fresh |-> fresh]]

\* processes.start: pm2 starts a process, then db.upsertTaskConfig({pm2Id, groupId || null})
ProcessesStart(c, p, g) ==
    /\ IdleClient(c)
    /\ pm2List[p] = "absent"
    /\ pm2List' = [pm2List EXCEPT ![p] = "online"]
    /\ lastAssign' = [lastAssign EXCEPT ![p] = NoClaim]
    /\ IF getDb
       THEN /\ reqs' = [reqs EXCEPT ![c] = [op |-> "start", pm2Id |-> p, groupId |-> g]]
            /\ out' = NoOut
       ELSE /\ Finish(c)
            /\ out' = <<[kind |-> "error", to |-> c, message |-> "Database not available"]>>
    /\ UNCHANGED <<dbUrl, taskGroups, taskGroupsAuto, taskConfigs, localData, issuedLocal>>
    /\ UNCHANGED sockVars

ProcessesStartUpsert(c, ok) ==
    /\ reqs[c].op = "start"
    /\ IF ok
       THEN /\ taskConfigs' = upsertTaskConfig(taskConfigs,
                                [pm2Id |-> reqs[c].pm2Id, groupId |-> reqs[c].groupId])
            /\ out' = <<[kind |-> "ok", to |-> c]>>
       ELSE /\ UNCHANGED taskConfigs
            /\ out' = <<[kind |-> "error", to |-> c, message |-> "query failed"]>>
    /\ Finish(c)
    /\ UNCHANGED <<dbUrl, taskGroups, taskGroupsAuto, localData, issuedLocal, pm2List, lastAssign>>
    /\ UNCHANGED sockVars

\* a process of the supervisor goes away outside the manager (pm2 delete)
Pm2Delete(p) ==
    /\ pm2List[p] # "absent"
    /\ pm2List' = [pm2List EXCEPT ![p] = "absent"]
    /\ out' = NoOut
    /\ UNCHANGED <<dbUrl, taskGroups, taskGroupsAuto, taskConfigs, localData, issuedLocal, reqs, lastAssign>>
    /\ UNCHANGED sockVars

\* processes.list: await pm2Service.listProcesses()
ProcessesListFetch(c) ==
    /\ IdleClient(c)
    /\ reqs' = [reqs EXCEPT ![c] = [op |-> "list", processes |-> listProcesses]]
    /\ out' = NoOut
    /\ UNCHANGED <<storeVars, lastAssign>>
    /\ UNCHANGED sockVars

\* processes.list: await db.getAllTaskConfigs(), getAllTaskConfigsLocal(), merge
ProcessesListMerge(c, ok) ==
    /\ reqs[c].op = "list"
    /\ IF getDb /\ ~ok
       THEN out' = <<[kind |-> "error", to |-> c, message |-> "query failed"]>>
       ELSE out' = <<[kind |-> "list", to |-> c,
                    view |-> processesListView(reqs[c].processes, getAllTaskConfigs,
                                               getAllTaskConfigsLocal)]>>
    /\ Finish(c)
    /\ UNCHANGED <<storeVars, lastAssign>>
    /\ UNCHANGED sockVars

\* processes.updateGroup: localStorage.updateTaskConfigGroupLocal first
ProcessesUpdateGroup(c, p, g) ==
    /\ IdleClient(c)
    /\ localData' = updateTaskConfigGroupLocal(localData, p, g)
    /\ UNCHANGED issuedLocal
    /\ reqs' = [reqs EXCEPT ![c] = [op |-> "updateGroup", pm2Id |-> p, groupId |-> g]]
    /\ lastAssign' = [lastAssign EXCEPT ![p] = [set |-> FALSE, groupId |-> NULL, by |-> c]]
    /\ out' = NoOut
    /\ UNCHANGED <<dbUrl, taskGroups, taskGroupsAuto, taskConfigs, pm2List>>
    /\ UNCHANGED sockVars

\* processes.updateGroup: try { await db.updateTaskConfigGroup } catch {}; return success
ProcessesUpdateGroupDb(c, ok) ==
    /\ reqs[c].op = "updateGroup"
    /\ taskConfigs' = IF getDb /\ ok
                      THEN updateTaskConfigGroup(taskConfigs, reqs[c].pm2Id, reqs[c].groupId)
                      ELSE taskConfigs
    /\ lastAssign' = [lastAssign EXCEPT ![reqs[c].pm2Id] =
                        IF @.by = c
                        THEN [set |-> TRUE, groupId |-> reqs[c].groupId, by |-> "none"]
                        ELSE @]
    /\ out' = <<[kind |-> "ok", to |-> c]>>
    /\ Finish(c)
    /\ UNCHANGED <<dbUrl, taskGroups, taskGroupsAuto, localData, issuedLocal, pm2List>>
    /\ UNCHANGED sockVars

\* the fallback of groups.create: catch { return localStorage.createTaskGroupLocal(input) }
CreateLocal(c, name, color) ==
    /\ localData' = createTaskGroupLocal(localData, name, color)
    /\ issuedLocal' = Append(issuedLocal, localData.nextGroupId)
    /\ out' = <<[kind |-> "group", to |-> c, store |-> "local",
               group |-> [id |-> localData.nextGroupId, name |-> name, color |-> color]]>>
    /\ Created(c, [id |-> localData.nextGroupId, name |-> name, color |-> color],
               IF reqs[c].op = "create" THEN reqs[c].fresh ELSE NoGroups)

\* groups.create: db.createTaskGroup throws without a database
GroupsCreate(c, name, color) ==
    /\ IdleClient(c)
    /\ taskGroupsAuto + CreatesInFlight < MaxGroupId
    /\ localData.nextGroupId + CreatesInFlight <= MaxGroupId
    /\ IF getDb
       THEN /\ reqs' = [reqs EXCEPT ![c] = [op |-> "create", pc |-> "insert",
                                             name |-> name, color |-> color, id |-> NULL,
                                             fresh |-> NoGroups]]
            /\ out' = NoOut
            /\ UNCHANGED <<localData, issuedLocal>>
       ELSE CreateLocal(c, name, color)
    /\ UNCHANGED <<dbUrl, taskGroups, taskGroupsAuto, taskConfigs, pm2List, lastAssign>>
    /\ UNCHANGED sockVars

\* createTaskGroup: db.insert(taskGroups).values(group)
GroupsCreateInsert(c, ok) ==
    /\ reqs[c].op = "create" /\ reqs[c].pc = "insert"
    /\ IF ok
       THEN /\ taskGroupsAuto' = taskGroupsAuto + 1
            /\ taskGroups' = taskGroups \cup
                 {[id |-> taskGroupsAuto + 1, name |-> reqs[c].name, color |-> reqs[c].color]}
            /\ reqs' = [reqs EXCEPT ![c].pc = "fetch", ![c].id = taskGroupsAuto + 1]
            /\ out' = NoOut
            /\ UNCHANGED <<localData, issuedLocal>>
       ELSE /\ CreateLocal(c, reqs[c].name, reqs[c].color)
            /\ UNCHANGED <<taskGroups, taskGroupsAuto>>
    /\ UNCHANGED <<dbUrl, taskConfigs, pm2List, lastAssign>>
    /\ UNCHANGED sockVars

\* createTaskGroup: getTaskGroupById(insertedId), throws when the row is not there
GroupsCreateFetch(c, ok) ==
    /\ reqs[c].op = "create" /\ reqs[c].pc = "fetch"
    /\ IF ok /\ \E g \in taskGroups : g.id = reqs[c].id
       THEN /\ out' = <<[kind |-> "group", to |-> c, store |-> "db",
                       group |-> CHOOSE g \in taskGroups : g.id = reqs[c].id]>>
            /\ Created(c, CHOOSE g \in taskGroups : g.id = reqs[c].id, reqs[c].fresh)
            /\ UNCHANGED <<localData, issuedLocal>>
       ELSE CreateLocal(c, reqs[c].name, reqs[c].color)
    /\ UNCHANGED <<dbUrl, taskGroups, taskGroupsAuto, taskConfigs, pm2List, lastAssign>>
    /\ UNCHANGED sockVars

\* a color of a request, character by character
HexDigits == {"0", "1", "2", "3", "4", "5", "6", "7", "8", "9",
              "a", "b", "c", "d", "e", "f", "A", "B", "C", "D", "E", "F"}
GoodColors == {<<"#", "3", "B", "8", "2", "F", "6">>, <<"#", "0", "0", "f", "f", "f", "f">>}
BadColors == {<<"i", "n", "v", "a", "l", "i", "d">>,
              <<>>,
              <<"#", "F", "F", "F">>,
              <<"#", "3", "B", "8", "2", "F", "6", "0">>,
              <<"3", "B", "8", "2", "F", "6", "0">>,
              <<"#", "3", "B", "8", "2", "F", "G">>,
              <<" ", "#", "3", "B", "8", "2", "F", "6">>}

\* variant of the pattern without its end anchor: /^#[0-9A-Fa-f]{6}/
colorMatchesPrefix(color) ==
    /\ Len(color) >= 7
    /\ color[1] = "#"
    /\ \A i \in 2 .. 7 : color[i] \in HexDigits

\* z.string().regex(/^#[0-9A-Fa-f]{6}$/)
colorMatches(color) ==
    /\ Len(color) = 7
    /\ color[1] = "#"
    /\ \A i \in 2 .. 7 : color[i] \in HexDigits

\* groups.create, from the request: the input is parsed before the mutation runs; a name
\* of length 0 or a color that does not match is answered with BAD_REQUEST
GroupsCreateRequest(c, name, color) ==
    IF name # "" /\ colorMatches(color)
    THEN GroupsCreate(c, name, color)
    ELSE /\ IdleClient(c)
         /\ out' = <<[kind |-> "error", to |-> c, message |-> "BAD_REQUEST"]>>
         /\ UNCHANGED <<storeVars, reqs, lastAssign>>
         /\ UNCHANGED sockVars

\* getAllTaskGroupsLocal(): the groups of the document (as a set: the order by name is
\* not modelled)
getAllTaskGroupsLocal == {localData.groups[i] : i \in 1 .. Len(localData.groups)}

\* groups.list returns: dbGroups when there are any, the Fallback Store's groups otherwise;
\* history: made is the group the caller's groups.create just returned
GroupsListed(c, dbGroups, made) ==
    out' = <<[kind |-> "groups", to |-> c, made |-> made,
              groups |-> IF dbGroups # {} THEN dbGroups ELSE getAllTaskGroupsLocal]>>

\* groups.list: await db.getAllTaskGroups(), [] at once without a database
GroupsList(c) ==
    /\ reqs[c].op \in {"idle", "created"}
    /\ LET made == IF reqs[c].op = "created"
                   THEN <<[group |-> reqs[c].group, fresh |-> reqs[c].fresh]>>
                   ELSE <<>>
       IN  IF getDb
           THEN /\ reqs' = [reqs EXCEPT ![c] = [op |-> "list", made |-> made]]
                /\ out' = NoOut
           ELSE /\ GroupsListed(c, {}, made)
                /\ Finish(c)
    /\ UNCHANGED <<storeVars, lastAssign>>
    /\ UNCHANGED sockVars

\* getAllTaskGroups: db.select().from(taskGroups); a failing query fails the request
GroupsListSelect(c, ok) ==
    /\ reqs[c].op = "list"
    /\ IF ok
       THEN GroupsListed(c, taskGroups, reqs[c].made)
       ELSE out' = <<[kind |-> "error", to |-> c, message |-> "query failed"]>>
    /\ Finish(c)
    /\ UNCHANGED <<storeVars, lastAssign>>
    /\ UNCHANGED sockVars

\* history: a deletion of group id ends what updateGroup(p, id) promised
Unassign(id) ==
    [p \in Pm2Ids |->
        IF \/ lastAssign[p].set /\ lastAssign[p].groupId = id
           \/ \E c \in Clients : /\ lastAssign[p].by = c
                                 /\ reqs[c].op = "updateGroup"
                                 /\ reqs[c].groupId = id
        THEN NoClaim
        ELSE lastAssign[p]]

\* groups.delete: await db.deleteTaskGroup(id) returns at once without a database
GroupsDelete(c, id) ==
    /\ IdleClient(c)
    /\ lastAssign' = Unassign(id)
    /\ IF getDb
       THEN /\ reqs' = [reqs EXCEPT ![c] = [op |-> "delete", pc |-> "cascade", id |-> id]]
            /\ out' = NoOut
            /\ UNCHANGED <<localData, issuedLocal>>
       ELSE /\ localData' = deleteTaskGroupLocal(localData, id)
            /\ UNCHANGED issuedLocal
            /\ out' = <<[kind |-> "ok", to |-> c]>>
            /\ Finish(c)
    /\ UNCHANGED <<dbUrl, taskGroups, taskGroupsAuto, taskConfigs, pm2List>>
    /\ UNCHANGED sockVars

\* deleteTaskGroup: UPDATE task_configs SET groupId = NULL WHERE groupId = id
GroupsDeleteCascade(c, ok) ==
    /\ reqs[c].op = "delete" /\ reqs[c].pc = "cascade"
    /\ lastAssign' = Unassign(reqs[c].id)
    /\ IF ok
       THEN /\ taskConfigs' = deleteTaskGroupCascade(taskConfigs, reqs[c].id)
            /\ reqs' = [reqs EXCEPT ![c].pc = "delete"]
            /\ out' = NoOut
       ELSE /\ UNCHANGED taskConfigs
            /\ Finish(c)
            /\ out' = <<[kind |-> "error", to |-> c, message |-> "query failed"]>>
    /\ UNCHANGED <<dbUrl, taskGroups, taskGroupsAuto, localData, issuedLocal, pm2List>>
    /\ UNCHANGED sockVars

\* deleteTaskGroup: DELETE FROM task_groups WHERE id = id; then deleteTaskGroupLocal(id)
GroupsDeleteFinish(c, ok) ==
    /\ reqs[c].op = "delete" /\ reqs[c].pc = "delete"
    /\ lastAssign' = Unassign(reqs[c].id)
    /\ IF ok
       THEN /\ taskGroups' = {g \in taskGroups : g.id # reqs[c].id}
            /\ localData' = deleteTaskGroupLocal(localData, reqs[c].id)
            /\ UNCHANGED issuedLocal
            /\ out' = <<[kind |-> "ok", to |-> c]>>
       ELSE /\ UNCHANGED <<taskGroups, localData, issuedLocal>>
            /\ out' = <<[kind |-> "error", to |-> c, message |-> "query failed"]>>
    /\ Finish(c)
    /\ UNCHANGED <<dbUrl, taskGroupsAuto, taskConfigs, pm2List>>
    /\ UNCHANGED sockVars

\* ------------------------------------------- pm2Service.ts: batchOperation
MaxBatch == 2
\* the ids a request can name: the supervisor's, and one it never has
BatchIds == 0 .. MaxProcs
BatchLists == UNION {[1 .. n -> BatchIds] : n \in 0 .. MaxBatch}
NoError == ""

\* what stopProcess, restartProcess or deleteProcess throws for id, NoError when it
\* succeeds: the switch's default first, then ensureConnection, then the supervisor
opError(list, id, operation, daemonOk) ==
    IF operation \notin {"stop", "restart", "delete"} THEN "Unsupported operation: start"
    ELSE IF ~daemonOk THEN "connect failed"
    ELSE IF id \notin Pm2Ids \/ list[id] = "absent" THEN "process or namespace not found"
    ELSE NoError

\* the supervisor after a successful stop, restart or delete of id
pm2Apply(list, id, operation) ==
    [list EXCEPT ![id] = CASE operation = "stop" -> "stopped"
                           [] operation = "restart" -> "online"
                           [] operation = "delete" -> "absent"]

\* `Process ${id}: ${error.message}`
ProcessError(id, reason) == <<"Process ", id, ": ", reason>>

\* for (const id of processIds) { try { ...; results.success++ } catch { results.failed++;
\* results.errors.push(...) } }, from the i-th id on
RECURSIVE batchOperationFrom(_, _, _, _, _, _)
batchOperationFrom(processIds, i, operation, list, daemonOk, results) ==
    IF i > Len(processIds)
    THEN [results |-> results, list |-> list]
    ELSE LET id == processIds[i]
             reason == opError(list, id, operation, daemonOk)
         IN  IF reason = NoError
             THEN batchOperationFrom(processIds, i + 1, operation,
                                     pm2Apply(list, id, operation), daemonOk,
                                     [results EXCEPT !.success = @ + 1])
             ELSE batchOperationFrom(processIds, i + 1, operation, list, daemonOk,
                                     [results EXCEPT !.failed = @ + 1,
                                                     !.errors = Append(@, ProcessError(id, reason))])

\* batchOperation(processIds, operation): the tally and the supervisor's processes after it
batchOperation(processIds, operation, list, daemonOk) ==
    batchOperationFrom(processIds, 1, operation, list, daemonOk,
                       [success |-> 0, failed |-> 0, errors |-> <<>>])

\* deleteTaskConfig(pm2Id) for every id of the request
deleteTaskConfigs(rows, pm2Ids) ==
    {row \in rows : \A i \in 1 .. Len(pm2Ids) : row.pm2Id # pm2Ids[i]}

\* processes.batchOperation: pm2Service.batchOperation, then for a delete
\* db.deleteTaskConfig(pm2Id) for every id, whose failure fails the request; run here
\* without another request in between. History: the answer carries the request and the
\* supervisor's processes before it.
ProcessesBatchOperation(c, pm2Ids, operation, daemonOk, dbOk) ==
    /\ IdleClient(c)
    /\ LET run == batchOperation(pm2Ids, operation, pm2List, daemonOk)
           cleanUp == operation = "delete" /\ pm2Ids # <<>> /\ getDb
           request == [to |-> c, pm2Ids |-> pm2Ids, operation |-> operation,
                       before |-> pm2List, daemonOk |-> daemonOk]
       IN  /\ pm2List' = run.list
           /\ IF cleanUp /\ ~dbOk
              THEN /\ out' = <<[kind |-> "error", message |-> "query failed"] @@ request>>
                   /\ UNCHANGED taskConfigs
              ELSE /\ out' = <<[kind |-> "tally", result |-> run.results] @@ request>>
                   /\ taskConfigs' = IF cleanUp
                                     THEN deleteTaskConfigs(taskConfigs, pm2Ids)
                                     ELSE taskConfigs
    /\ UNCHANGED <<dbUrl, taskGroups, taskGroupsAuto, localData, issuedLocal, reqs, lastAssign>>
    /\ UNCHANGED sockVars

\* ------------------------------------------------- socket.ts: monitoring
Emit(s, type) == [kind |-> "emit", to |-> s, type |-> type]
Call(s, fn, row) == [kind |-> "call", by |-> s, fn |-> fn, row |-> row]
Handled(s, cmd) == [kind |-> "handled", to |-> s, cmd |-> cmd]
\* the insert of a call has been carried out by the database
Inserted(s, fn, row) == [kind |-> "insert", by |-> s, fn |-> fn, row |-> row]

\* a free slot for a run of fetchAndSendProcesses
FreeCycles == {k \in CycleIds : cycles[k].pc = "free"}
NewCycle == CHOOSE k \in FreeCycles : \A j \in FreeCycles : k <= j

\* an interval object that is neither active nor referenced by a session
FreeTimers ==
    {t \in TimerIds : timers[t] = "none" /\ \A s \in DOMAIN monitorInterval : monitorInterval[s] # t}
NewTimer == CHOOSE t \in FreeTimers : \A j \in FreeTimers : t <= j
StartsInFlight == {k \in CycleIds : cycles[k].pc # "free" /\ cycles[k].from = "start"}

\* variant of the loop: one without the status test
nextOfAnyStatus(processes, i) == IF i < Len(processes) THEN i + 1 ELSE 0

\* for (const proc of processes) if (proc.status === 'online'): the next one after i, or 0
nextOnline(processes, i) ==
    LET later == {j \in (i + 1) .. Len(processes) : processes[j].status = "online"}
    IN  IF later = {} THEN 0 ELSE CHOOSE j \in later : \A k \in later : j <= k

\* the insertPerformanceMetric calls of the online processes after index i, in order
RECURSIVE metricCalls(_, _, _)
metricCalls(s, processes, i) ==
    LET j == nextOnline(processes, i)
    IN  IF j = 0 THEN <<>>
        ELSE <<Call(s, "insertPerformanceMetric", [pm2Id |-> processes[j].pm_id])>>
             \o metricCalls(s, processes, j)

\* io.on('connection')
Connect(s) ==
    /\ sock[s] = "none"
    /\ sock' = [sock EXCEPT ![s] = "connected"]
    /\ out' = NoOut
    /\ UNCHANGED <<storeVars, rpcVars, monVars, performanceMetrics, logVars, logEntries>>

\* socket.on('monitor:start'): await fetchAndSendProcesses() begins with listProcesses()
MonitorStart(s) ==
    /\ sock[s] = "connected"
    /\ FreeCycles # {}
    /\ Cardinality(FreeTimers) > Cardinality(StartsInFlight)
    /\ cycles' = [cycles EXCEPT ![NewCycle] =
                    [pc |-> "fetch", sess |-> s, from |-> "start", processes |-> <<>>, i |-> 0,
                     appended |-> <<>>]]
    /\ monStopped' = [monStopped EXCEPT ![s] = FALSE]
    /\ out' = <<Handled(s, "monitor:start")>>
    /\ UNCHANGED <<storeVars, rpcVars, sock, monitorInterval, timers, performanceMetrics,
                   logVars, logEntries>>

\* setInterval(fetchAndSendProcesses, 2000) fires: a run begins, whatever else is in flight
Tick(t) ==
    /\ timers[t] # "none"
    /\ FreeCycles # {}
    /\ cycles' = [cycles EXCEPT ![NewCycle] =
                    [pc |-> "fetch", sess |-> timers[t], from |-> "tick",
                     processes |-> <<>>, i |-> 0, appended |-> <<>>]]
    /\ out' = NoOut
    /\ UNCHANGED <<storeVars, rpcVars, sock, monitorInterval, timers, monStopped,
                   performanceMetrics, logVars, logEntries>>

\* fetchAndSendProcesses returns.  In monitor:start the handler goes on:
\* monitorInterval = setInterval(...); socket.data.monitorInterval = monitorInterval
CycleEnd(k) ==
    /\ cycles' = [cycles EXCEPT ![k] = FreeSlot]
    /\ IF cycles[k].from = "start"
       THEN /\ timers' = [timers EXCEPT ![NewTimer] = cycles[k].sess]
            /\ monitorInterval' = [monitorInterval EXCEPT ![cycles[k].sess] = NewTimer]
       ELSE UNCHANGED <<timers, monitorInterval>>

\* variant of the catch: one that also clears the session's intervals and creates none
CycleFailStopsPolling(k) ==
    /\ out' = <<Emit(cycles[k].sess, "error")>>
    /\ cycles' = [cycles EXCEPT ![k] = FreeSlot]
    /\ timers' = [t \in TimerIds |-> IF timers[t] = cycles[k].sess THEN "none" ELSE timers[t]]
    /\ UNCHANGED <<monitorInterval, performanceMetrics>>

\* catch (error): socket.emit('error', { message: 'Failed to fetch process data' })
CycleFail(k) ==
    /\ out' = <<Emit(cycles[k].sess, "error")>>
    /\ CycleEnd(k)
    /\ UNCHANGED performanceMetrics

\* the merge, socket.emit('processes:update', processesWithGroups), and the metrics loop up
\* to its first await that leaves the event loop (none without a database)
CyclePush(k, processes, dbConfigs) ==
    LET s == cycles[k].sess
        update == [kind |-> "emit", to |-> s, type |-> "processes:update",
                   view |-> processesWithGroups(processes, dbConfigs, getAllTaskConfigsLocal)]
        j == nextOnline(processes, 0)
    IN  /\ UNCHANGED performanceMetrics
        /\ IF ~getDb
           THEN /\ out' = <<update>> \o metricCalls(s, processes, 0)
                /\ CycleEnd(k)
           ELSE IF j = 0
           THEN /\ out' = <<update>>
                /\ CycleEnd(k)
           ELSE /\ out' = <<update,
                            Call(s, "insertPerformanceMetric", [pm2Id |-> processes[j].pm_id])>>
                /\ cycles' = [cycles EXCEPT ![k].pc = "persist", ![k].processes = processes,
                                            ![k].i = j]
                /\ UNCHANGED <<timers, monitorInterval>>

\* await pm2Service.listProcesses() answers; await db.getAllTaskConfigs() follows
CycleFetch(k, ok) ==
    /\ cycles[k].pc = "fetch"
    /\ IF ~ok THEN CycleFail(k)
       ELSE IF getDb
       THEN /\ cycles' = [cycles EXCEPT ![k].pc = "configs", ![k].processes = listProcesses]
            /\ out' = NoOut
            /\ UNCHANGED <<timers, monitorInterval, performanceMetrics>>
       ELSE CyclePush(k, listProcesses, getAllTaskConfigs)
    /\ UNCHANGED <<storeVars, rpcVars, sock, monStopped, logVars, logEntries>>

\* variant of the cycle: one that creates an assignment row for each process that has none
CycleConfigsAutoCreate(k, ok) ==
    /\ cycles[k].pc = "configs"
    /\ IF ok THEN CyclePush(k, cycles[k].processes, getAllTaskConfigs) ELSE CycleFail(k)
    /\ taskConfigs' = taskConfigs \cup
          {[pm2Id |-> cycles[k].processes[i].pm_id, groupId |-> NULL] :
              i \in {j \in 1 .. Len(cycles[k].processes) :
                        \A c \in taskConfigs : c.pm2Id # cycles[k].processes[j].pm_id}}
    /\ UNCHANGED <<dbUrl, taskGroups, taskGroupsAuto, localData, issuedLocal, pm2List,
                   rpcVars, sock, monStopped, logVars, logEntries>>

\* await db.getAllTaskConfigs() answers
CycleConfigs(k, ok) ==
    /\ cycles[k].pc = "configs"
    /\ IF ok THEN CyclePush(k, cycles[k].processes, getAllTaskConfigs) ELSE CycleFail(k)
    /\ UNCHANGED <<storeVars, rpcVars, sock, monStopped, logVars, logEntries>>

\* await db.insertPerformanceMetric(...) answers; the loop goes on to the next online process
CyclePersist(k, ok) ==
    /\ cycles[k].pc = "persist"
    /\ LET s == cycles[k].sess
           processes == cycles[k].processes
           row == [pm2Id |-> processes[cycles[k].i].pm_id]
           j == nextOnline(processes, cycles[k].i)
       IN  IF ~ok THEN CycleFail(k)
           ELSE /\ performanceMetrics' = performanceMetrics \cup {row}
                /\ IF j = 0
                   THEN /\ out' = <<Inserted(s, "insertPerformanceMetric", row)>>
                        /\ CycleEnd(k)
                   ELSE /\ out' = <<Inserted(s, "insertPerformanceMetric", row),
                                    Call(s, "insertPerformanceMetric",
                                         [pm2Id |-> processes[j].pm_id])>>
                        /\ cycles' = [cycles EXCEPT ![k].i = j,
                                                    ![k].appended = Append(@, row.pm2Id)]
                        /\ UNCHANGED <<timers, monitorInterval>>
    /\ UNCHANGED <<storeVars, rpcVars, sock, monStopped, logVars, logEntries>>

\* variant of monitor:stop: one that clears every interval of the server
MonitorStopAll(s) ==
    /\ sock[s] = "connected"
    /\ timers' = [t \in TimerIds |-> "none"]
    /\ monitorInterval' = [monitorInterval EXCEPT ![s] = NoTimer]
    /\ monStopped' = [monStopped EXCEPT ![s] = TRUE]
    /\ out' = <<Handled(s, "monitor:stop")>>
    /\ UNCHANGED <<storeVars, rpcVars, sock, cycles, performanceMetrics, logVars, logEntries>>

\* socket.on('monitor:stop')
MonitorStop(s) ==
    /\ sock[s] = "connected"
    /\ IF monitorInterval[s] # NoTimer
       THEN /\ timers' = [timers EXCEPT ![monitorInterval[s]] = "none"]
            /\ monitorInterval' = [monitorInterval EXCEPT ![s] = NoTimer]
       ELSE UNCHANGED <<timers, monitorInterval>>
    /\ monStopped' = [monStopped EXCEPT ![s] = TRUE]
    /\ out' = <<Handled(s, "monitor:stop")>>
    /\ UNCHANGED <<storeVars, rpcVars, sock, cycles, performanceMetrics, logVars, logEntries>>

\* socket.on('disconnect'): clearInterval(socket.data.monitorInterval) and
\* socket.data.pm2Bus.close(), each if set; neither handle is reset
Disconnect(s) ==
    /\ sock[s] = "connected"
    /\ sock' = [sock EXCEPT ![s] = "disconnected"]
    /\ timers' = IF monitorInterval[s] # NoTimer
                 THEN [timers EXCEPT ![monitorInterval[s]] = "none"]
                 ELSE timers
    /\ buses' = IF pm2Bus[s] # NoBus
                THEN [buses EXCEPT ![pm2Bus[s]].st = "closed"]
                ELSE buses
    /\ busFeed' = IF pm2Bus[s] # NoBus THEN [busFeed EXCEPT ![pm2Bus[s]] = <<>>] ELSE busFeed
    /\ out' = <<Handled(s, "disconnect")>>
    /\ UNCHANGED <<storeVars, rpcVars, monitorInterval, cycles, monStopped, performanceMetrics,
                   pm2Bus, streams, logStopped, logFiles, logInserts, busClock, logEntries>>

\* ------------------------------------------------- socket.ts: log streaming
\* process.pm_out_log_path / process.pm_err_log_path: <logs>/<name>-out.log, <name>-error.log
pm_out_log_path(p) == [pm2Id |-> p, file |-> "out"]
pm_err_log_path(p) == [pm2Id |-> p, file |-> "error"]

\* the name of process 1 contains "out" (say "checkout"), that of the others does not
NameHasOut(p) == p = 1

\* logPath.includes('out') ? 'stdout' : 'stderr'
typeOfPath(path) == IF path.file = "out" \/ NameHasOut(path.pm2Id) THEN "stdout" ELSE "stderr"

\* the lines of a log file
logFile(path) == logFiles[path.file]

\* variant of logPaths: the err path first
logPathsErrFirst(p, type) ==
    (IF type \in {"stderr", "both"} THEN <<pm_err_log_path(p)>> ELSE <<>>)
    \o (IF type \in {"stdout", "both"} THEN <<pm_out_log_path(p)>> ELSE <<>>)

\* logPaths: the out path for 'stdout' | 'both', then the err path for 'stderr' | 'both'
logPaths(p, type) ==
    (IF type \in {"stdout", "both"} THEN <<pm_out_log_path(p)>> ELSE <<>>)
    \o (IF type \in {"stderr", "both"} THEN <<pm_err_log_path(p)>> ELSE <<>>)

\* variant of the window: one that never evicts
pushLineKeepAll(lines, line) == Append(lines, line)

\* lines.push(line); if (lines.length > maxLines) lines.shift()
pushLine(lines, line) ==
    LET pushed == Append(lines, line)
    IN  IF Len(pushed) > maxLines THEN Tail(pushed) ELSE pushed

\* socket.emit('logs:data', { pm2Id, type, content, timestamp }): the timestamp is
\* Now (new Date()) for a line of a file and packet.at for a live line
LogData(s, p, type, content, timestamp) ==
    [kind |-> "emit", to |-> s, type |-> "logs:data", pm2Id |-> p, logType |-> type,
     content |-> content, timestamp |-> timestamp]
\* variant of the insert: one that stores the line without its content
LogRowNoContent(p, type, content) == [pm2Id |-> p, type |-> type, content |-> ""]

\* db.insertLogEntry({ pm2Id, type, content })
LogRow(p, type, content) == [pm2Id |-> p, type |-> type, content |-> content]
\* what the table keeps of a row
Stored(row) == row.pm2Id

FreeStreams == {k \in StreamIds : streams[k].pc = "free"}
NewStream == CHOOSE k \in FreeStreams : \A j \in FreeStreams : k <= j
\* a bus that is not open and that no session and no unanswered insert refers to
FreeBuses ==
    {b \in BusIds : /\ buses[b].st # "open"
                    /\ \A s \in DOMAIN pm2Bus : pm2Bus[s] # b
                    /\ \A n \in 1 .. Len(logInserts) : logInserts[n].bus # b}
NewBus == CHOOSE b \in FreeBuses : \A j \in FreeBuses : b <= j

\* socket.emit('error', { message })
ErrorTo(s, message) == [kind |-> "emit", to |-> s, type |-> "error", message |-> message]

\* variant of describeProcess: one that answers with a process whatever the id
describeProcessFoundAlways(p) == TRUE

\* describeProcess(p) answers with a process (not null): the supervisor knows p
describeProcessFound(p) == pm2List[p] # "absent"

\* socket.on('logs:stream'): await pm2Service.describeProcess(data.pm2Id)
LogsStream(s, p, type) ==
    /\ sock[s] = "connected"
    /\ FreeStreams # {}
    /\ Cardinality(FreeBuses) > Cardinality(StreamIds \ FreeStreams)
    /\ streams' = [streams EXCEPT ![NewStream] =
                     [pc |-> "describe", sess |-> s, pm2Id |-> p, type |-> type,
                      paths |-> <<>>, file |-> <<>>, lines |-> <<>>, sent |-> "",
                      emitted |-> <<>>, skipped |-> <<>>, replayed |-> <<>>]]
    /\ logStopped' = [logStopped EXCEPT ![s] = FALSE]
    /\ out' = <<Handled(s, "logs:stream")>>
    /\ UNCHANGED <<storeVars, rpcVars, sock, monVars, performanceMetrics, pm2Bus, buses,
                   logFiles, logInserts, busFeed, busClock, logEntries>>

\* the handler returns without a bus
StreamEnd(k) == streams' = [streams EXCEPT ![k] = FreeSlot]

\* variant of the handler: one that attaches the live subscription as soon as the process
\* is found, before the files are replayed
StreamDescribeAttach(k, ok) ==
    /\ streams[k].pc = "describe"
    /\ IF ~ok
       THEN /\ out' = <<ErrorTo(streams[k].sess, "Failed to stream logs")>>
            /\ StreamEnd(k)
            /\ UNCHANGED <<pm2Bus, buses>>
       ELSE IF ~describeProcessFound(streams[k].pm2Id)
       THEN /\ out' = <<ErrorTo(streams[k].sess, "Process not found")>>
            /\ StreamEnd(k)
            /\ UNCHANGED <<pm2Bus, buses>>
       ELSE /\ out' = NoOut
            /\ streams' = [streams EXCEPT ![k].pc = "read",
                             ![k].paths = logPaths(streams[k].pm2Id, streams[k].type),
                             ![k].file = logFile(Head(logPaths(streams[k].pm2Id,
                                                               streams[k].type)))]
            /\ buses' = [buses EXCEPT ![NewBus] =
                           [st |-> "open", sess |-> streams[k].sess, pm2Id |-> streams[k].pm2Id]]
            /\ pm2Bus' = [pm2Bus EXCEPT ![streams[k].sess] = NewBus]
    /\ UNCHANGED <<storeVars, rpcVars, sock, monVars, performanceMetrics,
                   logStopped, logFiles, logInserts, busFeed, busClock, logEntries>>

\* describeProcess answers: null for a process the supervisor does not know
StreamDescribe(k, ok) ==
    /\ streams[k].pc = "describe"
    /\ IF ~ok
       THEN /\ out' = <<ErrorTo(streams[k].sess, "Failed to stream logs")>>
            /\ StreamEnd(k)
       ELSE IF ~describeProcessFound(streams[k].pm2Id)
       THEN /\ out' = <<ErrorTo(streams[k].sess, "Process not found")>>
            /\ StreamEnd(k)
       ELSE /\ out' = NoOut
            /\ streams' = [streams EXCEPT ![k].pc = "read",
                             ![k].paths = logPaths(streams[k].pm2Id, streams[k].type),
                             ![k].file = logFile(Head(logPaths(streams[k].pm2Id,
                                                               streams[k].type)))]
    /\ UNCHANGED <<storeVars, rpcVars, sock, monVars, performanceMetrics, pm2Bus, buses,
                   logStopped, logFiles, logInserts, busFeed, busClock, logEntries>>

\* history entries of a request: the lines emitted from the file of a path
Replayed(path, lines) == [i \in 1 .. Len(lines) |-> [file |-> path.file, line |-> lines[i]]]

\* the file of Head(paths) is done with, `lines` having been emitted in this step: the next
\* file is opened, or pm2 is imported
StreamNextFile(k, paths, lines) ==
    streams' = [streams EXCEPT ![k].pc = IF Len(paths) > 1 THEN "read" ELSE "bus",
                               ![k].paths = Tail(paths),
                               ![k].file = IF Len(paths) > 1 THEN logFile(paths[2]) ELSE <<>>,
                               ![k].lines = <<>>, ![k].sent = "", ![k].emitted = <<>>,
                               ![k].replayed = @ \o Replayed(Head(paths), lines)]

\* variant of the file loop: one without a try of its own, a failing file ends the request
\* in the outer catch
StreamAbort(k) ==
    /\ out' = <<ErrorTo(streams[k].sess, "Failed to stream logs")>>
    /\ StreamEnd(k)

\* catch (error) of the file loop: the file is logged and skipped
StreamSkipFile(k) ==
    /\ out' = NoOut
    /\ streams' = [streams EXCEPT
                     ![k].pc = IF Len(streams[k].paths) > 1 THEN "read" ELSE "bus",
                     ![k].paths = Tail(streams[k].paths),
                     ![k].file = IF Len(streams[k].paths) > 1
                                 THEN logFile(streams[k].paths[2]) ELSE <<>>,
                     ![k].lines = <<>>, ![k].sent = "", ![k].emitted = <<>>,
                     ![k].skipped = Append(@, Head(streams[k].paths))]

\* every remaining line at once: without a database insertLogEntry never leaves the loop
RECURSIVE replayAll(_, _, _, _)
replayAll(s, p, type, lines) ==
    IF lines = <<>> THEN <<>>
    ELSE <<LogData(s, p, type, Head(lines), Now),
           Call(s, "insertLogEntry", LogRow(p, type, Head(lines)))>>
         \o replayAll(s, p, type, Tail(lines))

\* for (const line of lines) { socket.emit('logs:data', ...); await db.insertLogEntry(...) }
\* from the first of `lines` up to the next await that leaves the event loop; `before`
\* are the events the step has produced already
StreamReplay(k, lines, before) ==
    LET s == streams[k].sess
        p == streams[k].pm2Id
        path == Head(streams[k].paths)
        type == typeOfPath(path)
    IN  IF lines = <<>>
        THEN /\ out' = before
             /\ StreamNextFile(k, streams[k].paths, <<>>)
        ELSE IF ~getDb
        THEN /\ out' = before \o replayAll(s, p, type, lines)
             /\ StreamNextFile(k, streams[k].paths, lines)
        ELSE /\ out' = before \o <<LogData(s, p, type, Head(lines), Now),
                                   Call(s, "insertLogEntry", LogRow(p, type, Head(lines)))>>
             /\ streams' = [streams EXCEPT ![k].pc = "send", ![k].lines = Tail(lines),
                                           ![k].sent = Head(lines),
                                           ![k].emitted = Append(@, Head(lines)),
                                           ![k].replayed = @ \o Replayed(path, <<Head(lines)>>)]

\* for await (const line of rl): the next line is read into the window, or the file has
\* ended and the replay begins (or the read fails: catch, the file is skipped)
StreamRead(k, ok) ==
    /\ streams[k].pc = "read"
    /\ IF ~ok
       THEN StreamSkipFile(k)
       ELSE IF streams[k].file # <<>>
       THEN /\ out' = NoOut
            /\ streams' = [streams EXCEPT
                             ![k].lines = pushLine(streams[k].lines, Head(streams[k].file)),
                             ![k].file = Tail(streams[k].file)]
       ELSE StreamReplay(k, streams[k].lines, <<>>)
    /\ UNCHANGED <<storeVars, rpcVars, sock, monVars, performanceMetrics, pm2Bus, buses,
                   logStopped, logFiles, logInserts, busFeed, busClock, logEntries>>

\* await db.insertLogEntry(...) answers (or rejects: catch, the rest of the file is skipped)
StreamSend(k, ok) ==
    /\ streams[k].pc = "send"
    /\ LET row == LogRow(streams[k].pm2Id, typeOfPath(Head(streams[k].paths)), streams[k].sent)
       IN  IF ok
           THEN /\ logEntries' = logEntries \cup {Stored(row)}
                /\ StreamReplay(k, streams[k].lines,
                                <<Inserted(streams[k].sess, "insertLogEntry", row)>>)
           ELSE /\ UNCHANGED logEntries
                /\ StreamSkipFile(k)
    /\ UNCHANGED <<storeVars, rpcVars, sock, monVars, performanceMetrics, pm2Bus, buses,
                   logStopped, logFiles, logInserts, busFeed, busClock>>

\* await import('pm2'); pm2.launchBus((err, bus) => ...): on a bus of its own the handler
\* is subscribed to log:out and log:err, and socket.data.pm2Bus = bus
StreamBus(k, ok) ==
    /\ streams[k].pc = "bus"
    /\ IF ok
       THEN /\ buses' = [buses EXCEPT ![NewBus] =
                           [st |-> "open", sess |-> streams[k].sess, pm2Id |-> streams[k].pm2Id]]
            /\ pm2Bus' = [pm2Bus EXCEPT ![streams[k].sess] = NewBus]
       ELSE UNCHANGED <<buses, pm2Bus>>
    /\ StreamEnd(k)
    /\ out' = NoOut
    /\ UNCHANGED <<storeVars, rpcVars, sock, monVars, performanceMetrics, logStopped,
                   logFiles, logInserts, busFeed, busClock, logEntries>>

\* logHandler(packet) on bus b: packet.process.pm_id === data.pm2Id, then
\* logType = packet.data ? 'stdout' : 'stderr'; content = packet.data || packet.error || ''
logHandler(b, packet, ok) ==
    /\ buses[b].st = "open"
    /\ ok => getDb
    /\ LET s == buses[b].sess
           logType == IF packet.data # "" THEN "stdout" ELSE "stderr"
           content == IF packet.data # "" THEN packet.data ELSE packet.error
           row == LogRow(buses[b].pm2Id, logType, content)
       IN  IF packet.pm_id = buses[b].pm2Id
           THEN /\ out' = <<LogData(s, buses[b].pm2Id, logType, content, packet.at),
                             Call(s, "insertLogEntry", row)>>
                           \o (IF ok THEN <<Inserted(s, "insertLogEntry", row)>> ELSE <<>>)
                /\ logEntries' = IF ok THEN logEntries \cup {Stored(row)} ELSE logEntries
           ELSE /\ out' = NoOut
                /\ UNCHANGED logEntries
    /\ UNCHANGED <<storeVars, rpcVars, sock, monVars, performanceMetrics, pm2Bus, buses,
                   streams, logStopped, logFiles, logInserts>>

\* a log event reaches bus b while nothing waits there and its logHandler runs at once
LiveLog(b, packet, ok) ==
    /\ busFeed[b] = <<>>
    /\ logHandler(b, packet, ok)
    /\ UNCHANGED <<busFeed, busClock>>

\* the packets of the supervisor's bus: log:out carries the line in data; log:err
\* carries it in data or in error
Packets ==
    {[pm_id |-> p, event |-> "log:out", data |-> d, error |-> "", at |-> busClock + 1] :
        p \in Pm2Ids, d \in {"", "live"}}
    \cup {[pm_id |-> p, event |-> "log:err", data |-> d, error |-> e, at |-> busClock + 1] :
        p \in Pm2Ids, d \in {"", "live"}, e \in {"", "live"}}

\* the supervisor publishes a log event: every open bus receives it
BusPublish(packet) ==
    /\ busClock < MaxEvents
    /\ \E b \in BusIds : buses[b].st = "open"
    /\ busFeed' = [b \in BusIds |-> IF buses[b].st = "open" THEN Append(busFeed[b], packet)
                                     ELSE busFeed[b]]
    /\ busClock' = busClock + 1
    /\ out' = NoOut
    /\ UNCHANGED <<storeVars, rpcVars, sock, monVars, performanceMetrics, pm2Bus, buses,
                   streams, logStopped, logFiles, logInserts, logEntries>>

\* the packet a bus hands to its listeners next: the newest one (variant), the oldest one
nextPacketNewest(feed) == feed[Len(feed)]

nextPacket(feed) == Head(feed)

\* bus.on('log:out', logHandler); bus.on('log:err', logHandler): bus b dispatches a
\* received packet to logHandler
BusDispatch(b, ok) ==
    /\ busFeed[b] # <<>>
    /\ LET packet == nextPacket(busFeed[b])
       IN  /\ logHandler(b, packet, ok)
           /\ busFeed' = [busFeed EXCEPT ![b] = SelectSeq(@, LAMBDA q : q.at # packet.at)]
    /\ UNCHANGED busClock

\* logHandler(packet) on bus b up to its await: the line is emitted and db.insertLogEntry is
\* called; the handler returns to the bus while the insert is unanswered (without a
\* database insertLogEntry returns at once and nothing is left to answer)
BusDeliver(b) ==
    /\ busFeed[b] # <<>>
    /\ buses[b].st = "open"
    /\ LET packet == nextPacket(busFeed[b])
           s == buses[b].sess
           logType == IF packet.data # "" THEN "stdout" ELSE "stderr"
           content == IF packet.data # "" THEN packet.data ELSE packet.error
           row == LogRow(buses[b].pm2Id, logType, content)
       IN  /\ busFeed' = [busFeed EXCEPT ![b] = SelectSeq(@, LAMBDA q : q.at # packet.at)]
           /\ IF packet.pm_id = buses[b].pm2Id
              THEN /\ out' = <<LogData(s, buses[b].pm2Id, logType, content, packet.at),
                                Call(s, "insertLogEntry", row)>>
                   /\ logInserts' = IF getDb
                                    THEN Append(logInserts, [bus |-> b, by |-> s, row |-> row,
                                                             at |-> packet.at])
                                    ELSE logInserts
              ELSE /\ out' = NoOut
                   /\ UNCHANGED logInserts
    /\ UNCHANGED <<storeVars, rpcVars, sock, monVars, performanceMetrics, pm2Bus, buses,
                   streams, logStopped, logFiles, busClock, logEntries>>

\* logInserts without its n-th call
WithoutInsert(n) == [i \in 1 .. Len(logInserts) - 1 |-> logInserts[IF i < n THEN i ELSE i + 1]]

\* await db.insert(logEntries).values(entry) of the n-th unanswered call is answered: each
\* logHandler call awaits its own insert and none waits for another
InsertLogEntryAnswer(n, ok) ==
    /\ n \in 1 .. Len(logInserts)
    /\ logInserts' = WithoutInsert(n)
    /\ IF ok
       THEN /\ logEntries' = logEntries \cup {Stored(logInserts[n].row)}
            /\ out' = <<Inserted(logInserts[n].by, "insertLogEntry", logInserts[n].row)>>
       ELSE /\ UNCHANGED logEntries
            /\ out' = NoOut
    /\ UNCHANGED <<storeVars, rpcVars, sock, monVars, performanceMetrics, pm2Bus, buses,
                   streams, logStopped, logFiles, busFeed, busClock>>

\* variant of logs:stop: one that ends the polling as well
LogsStopAndPolling(s) ==
    /\ sock[s] = "connected"
    /\ IF pm2Bus[s] # NoBus
       THEN /\ buses' = [buses EXCEPT ![pm2Bus[s]].st = "closed"]
            /\ busFeed' = [busFeed EXCEPT ![pm2Bus[s]] = <<>>]
            /\ pm2Bus' = [pm2Bus EXCEPT ![s] = NoBus]
       ELSE UNCHANGED <<buses, busFeed, pm2Bus>>
    /\ IF monitorInterval[s] # NoTimer
       THEN /\ timers' = [timers EXCEPT ![monitorInterval[s]] = "none"]
            /\ monitorInterval' = [monitorInterval EXCEPT ![s] = NoTimer]
       ELSE UNCHANGED <<timers, monitorInterval>>
    /\ logStopped' = [logStopped EXCEPT ![s] = TRUE]
    /\ out' = <<Handled(s, "logs:stop")>>
    /\ UNCHANGED <<storeVars, rpcVars, sock, cycles, monStopped, performanceMetrics, streams,
                   logFiles, logInserts, busClock, logEntries>>

\* socket.on('logs:stop')
LogsStop(s) ==
    /\ sock[s] = "connected"
    /\ IF pm2Bus[s] # NoBus
       THEN /\ buses' = [buses EXCEPT ![pm2Bus[s]].st = "closed"]
            /\ busFeed' = [busFeed EXCEPT ![pm2Bus[s]] = <<>>]
            /\ pm2Bus' = [pm2Bus EXCEPT ![s] = NoBus]
       ELSE UNCHANGED <<buses, busFeed, pm2Bus>>
    /\ logStopped' = [logStopped EXCEPT ![s] = TRUE]
    /\ out' = <<Handled(s, "logs:stop")>>
    /\ UNCHANGED <<storeVars, rpcVars, sock, monVars, performanceMetrics, streams, logFiles,
                   logInserts,
                   busClock, logEntries>>

\* ------------------------------ localStorage.ts: the Fallback Store called directly
\* loadData(): the document, or the empty one when the file is missing or the read fails
loadData(readOk) == IF readOk THEN localData ELSE EmptyData

\* saveData(data): the file is rewritten; a failing write is logged and swallowed
saveData(data, writeOk) == IF writeOk THEN data ELSE localData

\* updateTaskGroupLocal(id, updates): the group of that id gets the new name, if there
updateTaskGroupLocal(data, id, name) ==
    [data EXCEPT !.groups = [i \in 1 .. Len(@) |->
                                IF @[i].id = id THEN [@[i] EXCEPT !.name = name] ELSE @[i]]]

LocalFrame ==
    UNCHANGED <<dbUrl, taskGroups, taskGroupsAuto, taskConfigs, pm2List, rpcVars, sockVars>>

\* createTaskGroupLocal(group)
LocalCreateTaskGroup(name, color, readOk, writeOk) ==
    /\ Len(issuedLocal) < MaxIssued
    /\ LET data == loadData(readOk)
       IN  /\ localData' = saveData(createTaskGroupLocal(data, name, color), writeOk)
           /\ issuedLocal' = Append(issuedLocal, data.nextGroupId)
           /\ out' = <<[kind |-> "group", to |-> "local", store |-> "local",
                       group |-> [id |-> data.nextGroupId, name |-> name, color |-> color]]>>
    /\ LocalFrame

\* updateTaskGroupLocal(id, updates): returns undefined, saving nothing, for an unknown id
LocalUpdateTaskGroup(id, name, readOk, writeOk) ==
    /\ LET data == loadData(readOk)
           found == \E i \in 1 .. Len(data.groups) : data.groups[i].id = id
       IN  /\ localData' = IF found THEN saveData(updateTaskGroupLocal(data, id, name), writeOk)
                           ELSE localData
           /\ out' = <<[kind |-> "updated", to |-> "local", found |-> found]>>
    /\ UNCHANGED issuedLocal
    /\ LocalFrame

\* deleteTaskGroupLocal(id)
LocalDeleteTaskGroup(id, readOk, writeOk) ==
    /\ localData' = saveData(deleteTaskGroupLocal(loadData(readOk), id), writeOk)
    /\ out' = <<[kind |-> "ok", to |-> "local"]>>
    /\ UNCHANGED issuedLocal
    /\ LocalFrame

\* updateTaskConfigGroupLocal(pm2Id, groupId)
LocalUpdateTaskConfigGroup(pm2Id, groupId, readOk, writeOk) ==
    /\ localData' = saveData(updateTaskConfigGroupLocal(loadData(readOk), pm2Id, groupId),
                             writeOk)
    /\ out' = <<[kind |-> "ok", to |-> "local"]>>
    /\ UNCHANGED issuedLocal
    /\ LocalFrame

\* ------------------------------------- db.ts: the Config Store called directly
\* A call runs n queries; the backend answers the first q of them and rejects the next.
\* Without DATABASE_URL no query is sent.  Timestamps are days, Now being today.
Backend(q, n) ==
    IF ~getDb THEN "none" ELSE IF q = n THEN "up" ELSE IF q = 0 THEN "down" ELSE "lost"

Answers(q, n) == q \in 0 .. n /\ (~getDb => q = n)

Returned(fn, backend, result) ==
    [kind |-> "returned", fn |-> fn, backend |-> backend, result |-> result]

Threw(fn, backend) == [kind |-> "threw", fn |-> fn, backend |-> backend]

StoreFrame == UNCHANGED <<dbUrl, localData, issuedLocal, pm2List, rpcVars, sock, monVars, logVars>>

\* a query function: if (!db) return []; return await db.select()...
DbRead(fn, rows, q) ==
    /\ Answers(q, 1)
    /\ out' = IF ~getDb THEN <<Returned(fn, Backend(q, 1), {})>>
              ELSE IF q = 1 THEN <<Returned(fn, Backend(q, 1), rows)>>
              ELSE <<Threw(fn, Backend(q, 1))>>
    /\ UNCHANGED <<taskGroups, taskGroupsAuto, taskConfigs, performanceMetrics, logEntries>>
    /\ StoreFrame

\* getAllTaskGroups()
DbGetAllTaskGroups(q) == DbRead("getAllTaskGroups", taskGroups, q)

\* getAllTaskConfigs()
DbGetAllTaskConfigs(q) == DbRead("getAllTaskConfigs", taskConfigs, q)

\* getPerformanceMetrics(pm2Id): WHERE pm2Id = pm2Id
DbGetPerformanceMetrics(pm2Id, q) ==
    DbRead("getPerformanceMetrics", {m \in performanceMetrics : m.pm2Id = pm2Id}, q)

\* getLogEntries(pm2Id): WHERE pm2Id = pm2Id
DbGetLogEntries(pm2Id, q) ==
    DbRead("getLogEntries", {e \in logEntries : e.pm2Id = pm2Id}, q)

\* insertPerformanceMetric(metric): if (!db) return; await db.insert(...)
DbInsertPerformanceMetric(pm2Id, q) ==
    /\ Answers(q, 1)
    /\ performanceMetrics' = IF getDb /\ q = 1
                             THEN performanceMetrics \cup {[pm2Id |-> pm2Id, timestamp |-> Now]}
                             ELSE performanceMetrics
    /\ out' = IF getDb /\ q = 0 THEN <<Threw("insertPerformanceMetric", Backend(q, 1))>>
              ELSE <<Returned("insertPerformanceMetric", Backend(q, 1), {})>>
    /\ UNCHANGED <<taskGroups, taskGroupsAuto, taskConfigs, logEntries>>
    /\ StoreFrame

\* insertLogEntry(entry): if (!db) return; await db.insert(...)
DbInsertLogEntry(pm2Id, q) ==
    /\ Answers(q, 1)
    /\ logEntries' = IF getDb /\ q = 1
                     THEN logEntries \cup {[pm2Id |-> pm2Id, timestamp |-> Now]}
                     ELSE logEntries
    /\ out' = IF getDb /\ q = 0 THEN <<Threw("insertLogEntry", Backend(q, 1))>>
              ELSE <<Returned("insertLogEntry", Backend(q, 1), {})>>
    /\ UNCHANGED <<taskGroups, taskGroupsAuto, taskConfigs, performanceMetrics>>
    /\ StoreFrame

\* variant of the cutoff: daysToKeep days ahead of now
cutoffDateAhead(daysToKeep) == Now + daysToKeep

\* cutoffDate = new Date(); cutoffDate.setDate(cutoffDate.getDate() - daysToKeep)
cutoffDate(daysToKeep) == Now - daysToKeep

\* db.delete(table).where(lte(table.timestamp, cutoffDate))
deleteOld(rows, daysToKeep) == {r \in rows : ~(r.timestamp <= cutoffDate(daysToKeep))}

\* cleanOldPerformanceMetrics(daysToKeep = 7)
DbCleanOldPerformanceMetrics(daysToKeep, q) ==
    /\ Answers(q, 1)
    /\ performanceMetrics' = IF getDb /\ q = 1 THEN deleteOld(performanceMetrics, daysToKeep)
                             ELSE performanceMetrics
    /\ out' = IF getDb /\ q = 0 THEN <<Threw("cleanOldPerformanceMetrics", Backend(q, 1))>>
              ELSE <<Returned("cleanOldPerformanceMetrics", Backend(q, 1), {})>>
    /\ UNCHANGED <<taskGroups, taskGroupsAuto, taskConfigs, logEntries>>
    /\ StoreFrame

\* cleanOldLogEntries(daysToKeep = 30)
DbCleanOldLogEntries(daysToKeep, q) ==
    /\ Answers(q, 1)
    /\ logEntries' = IF getDb /\ q = 1 THEN deleteOld(logEntries, daysToKeep) ELSE logEntries
    /\ out' = IF getDb /\ q = 0 THEN <<Threw("cleanOldLogEntries", Backend(q, 1))>>
              ELSE <<Returned("cleanOldLogEntries", Backend(q, 1), {})>>
    /\ UNCHANGED <<taskGroups, taskGroupsAuto, taskConfigs, performanceMetrics>>
    /\ StoreFrame

\* createTaskGroup(group): throws without a database; insert, then getTaskGroupById
DbCreateTaskGroup(name, color, q) ==
    /\ Answers(q, 2)
    /\ taskGroupsAuto < MaxGroupId
    /\ LET row == [id |-> taskGroupsAuto + 1, name |-> name, color |-> color]
       IN  IF getDb /\ q >= 1
           THEN /\ taskGroupsAuto' = taskGroupsAuto + 1
                /\ taskGroups' = taskGroups \cup {row}
                /\ out' = IF q = 2 THEN <<Returned("createTaskGroup", Backend(q, 2), {row})>>
                          ELSE <<Threw("createTaskGroup", Backend(q, 2))>>
           ELSE /\ UNCHANGED <<taskGroups, taskGroupsAuto>>
                /\ out' = <<Threw("createTaskGroup", Backend(q, 2))>>
    /\ UNCHANGED <<taskConfigs, performanceMetrics, logEntries>>
    /\ StoreFrame

\* updateTaskGroup(id, data): if (!db) return undefined; update, then getTaskGroupById
DbUpdateTaskGroup(id, name, q) ==
    /\ Answers(q, 2)
    /\ taskGroups' = IF getDb /\ q >= 1
                     THEN {IF g.id = id THEN [g EXCEPT !.name = name] ELSE g : g \in taskGroups}
                     ELSE taskGroups
    /\ out' = IF ~getDb THEN <<Returned("updateTaskGroup", Backend(q, 2), {})>>
              ELSE IF q = 2
              THEN <<Returned("updateTaskGroup", Backend(q, 2), {g \in taskGroups' : g.id = id})>>
              ELSE <<Threw("updateTaskGroup", Backend(q, 2))>>
    /\ UNCHANGED <<taskGroupsAuto, taskConfigs, performanceMetrics, logEntries>>
    /\ StoreFrame

\* deleteTaskGroup(id): if (!db) return; the cascade update, then the delete
DbDeleteTaskGroup(id, q) ==
    /\ Answers(q, 2)
    /\ taskConfigs' = IF getDb /\ q >= 1 THEN deleteTaskGroupCascade(taskConfigs, id)
                      ELSE taskConfigs
    /\ taskGroups' = IF getDb /\ q = 2 THEN {g \in taskGroups : g.id # id} ELSE taskGroups
    /\ out' = IF getDb /\ q < 2 THEN <<Threw("deleteTaskGroup", Backend(q, 2))>>
              ELSE <<Returned("deleteTaskGroup", Backend(q, 2), {})>>
    /\ UNCHANGED <<taskGroupsAuto, performanceMetrics, logEntries>>
    /\ StoreFrame

\* upsertTaskConfig(config): throws without a database; getTaskConfigByPm2Id, the update
\* or the insert, then the select of the row
DbUpsertTaskConfig(pm2Id, groupId, q) ==
    /\ Answers(q, 3)
    /\ LET config == [pm2Id |-> pm2Id, groupId |-> groupId]
       IN  /\ taskConfigs' = IF getDb /\ q >= 2 THEN upsertTaskConfig(taskConfigs, config)
                             ELSE taskConfigs
           /\ out' = IF getDb /\ q = 3
                     THEN <<Returned("upsertTaskConfig", Backend(q, 3), {config})>>
                     ELSE <<Threw("upsertTaskConfig", Backend(q, 3))>>
    /\ UNCHANGED <<taskGroups, taskGroupsAuto, performanceMetrics, logEntries>>
    /\ StoreFrame

\* updateTaskConfigGroup(pm2Id, groupId): if (!db) return; UPDATE ... WHERE pm2Id
DbUpdateTaskConfigGroup(pm2Id, groupId, q) ==
    /\ Answers(q, 1)
    /\ taskConfigs' = IF getDb /\ q = 1 THEN updateTaskConfigGroup(taskConfigs, pm2Id, groupId)
                      ELSE taskConfigs
    /\ out' = IF getDb /\ q = 0 THEN <<Threw("updateTaskConfigGroup", Backend(q, 1))>>
              ELSE <<Returned("updateTaskConfigGroup", Backend(q, 1), {})>>
    /\ UNCHANGED <<taskGroups, taskGroupsAuto, performanceMetrics, logEntries>>
    /\ StoreFrame

Init ==
    /\ dbUrl \in BOOLEAN
    /\ taskGroups = {}
    /\ taskGroupsAuto = 0
    /\ taskConfigs = {}
    /\ localData = EmptyData
    /\ issuedLocal = <<>>
    /\ pm2List = [p \in Pm2Ids |-> "absent"]
    /\ reqs = [c \in Clients |-> Idle]
    /\ out = NoOut
    /\ lastAssign = [p \in Pm2Ids |-> NoClaim]
    /\ sock = [s \in Sessions |-> "none"]
    /\ monitorInterval = [s \in Sessions |-> NoTimer]
    /\ timers = [t \in TimerIds |-> "none"]
    /\ cycles = [k \in CycleIds |-> FreeSlot]
    /\ monStopped = [s \in Sessions |-> FALSE]
    /\ performanceMetrics = {}
    /\ pm2Bus = [s \in Sessions |-> NoBus]
    /\ buses = [b \in BusIds |-> FreeBus]
    /\ streams = [k \in StreamIds |-> FreeSlot]
    /\ logStopped = [s \in Sessions |-> FALSE]
    /\ logFiles = [out |-> <<"o1", "o2">>, error |-> <<"e1">>]
    /\ logInserts = <<>>
    /\ busFeed = [b \in BusIds |-> <<>>]
    /\ busClock = 0
    /\ logEntries = {}

Next ==
    \/ \E c \in Callers, p \in Pm2Ids, g \in GroupIds \cup {NULL} : ProcessesStart(c, p, g)
    \/ \E c \in Callers, ok \in BOOLEAN : ProcessesStartUpsert(c, ok)
    \/ \E p \in Pm2Ids : Pm2Delete(p)
    \/ \E c \in Callers : ProcessesListFetch(c)
    \/ \E c \in Callers, ok \in BOOLEAN : ProcessesListMerge(c, ok)
    \/ \E c \in Callers, p \in Pm2Ids, g \in GroupIds \cup {NULL} : ProcessesUpdateGroup(c, p, g)
    \/ \E c \in Callers, ok \in BOOLEAN : ProcessesUpdateGroupDb(c, ok)
    \/ \E c \in Callers, id \in GroupIds : GroupsDelete(c, id)
    \/ \E c \in Callers, ok \in BOOLEAN : GroupsDeleteCascade(c, ok)
    \/ \E c \in Callers, ok \in BOOLEAN : GroupsDeleteFinish(c, ok)

Spec == Init /\ [][Next]_vars

\* the socket server over a running supervisor: the processes and the stores are those
\* some earlier requests left behind
InitMonitor ==
    /\ dbUrl \in BOOLEAN
    /\ taskGroups = {}
    /\ taskGroupsAuto = 0
    /\ taskConfigs \in {{}, {[pm2Id |-> 0, groupId |-> 1]}}
    /\ localData \in {EmptyData, updateTaskConfigGroupLocal(EmptyData, 0, NULL)}
    /\ issuedLocal = <<>>
    /\ pm2List \in [Pm2Ids -> {"online", "stopped"}]
    /\ reqs = [c \in Clients |-> Idle]
    /\ out = NoOut
    /\ lastAssign = [p \in Pm2Ids |-> NoClaim]
    /\ sock = [s \in Sessions |-> "none"]
    /\ monitorInterval = [s \in Sessions |-> NoTimer]
    /\ timers = [t \in TimerIds |-> "none"]
    /\ cycles = [k \in CycleIds |-> FreeSlot]
    /\ monStopped = [s \in Sessions |-> FALSE]
    /\ performanceMetrics = {}
    /\ pm2Bus = [s \in Sessions |-> NoBus]
    /\ buses = [b \in BusIds |-> FreeBus]
    /\ streams = [k \in StreamIds |-> FreeSlot]
    /\ logStopped = [s \in Sessions |-> FALSE]
    /\ logFiles = [out |-> <<"o1", "o2">>, error |-> <<"e1">>]
    /\ logInserts = <<>>
    /\ busFeed = [b \in BusIds |-> <<>>]
    /\ busClock = 0
    /\ logEntries = {}

NextMonitor ==
    \/ \E s \in Sessions : Connect(s)
    \/ \E s \in Sessions : MonitorStart(s)
    \/ \E t \in TimerIds : Tick(t)
    \/ \E k \in CycleIds, ok \in BOOLEAN : CycleFetch(k, ok)
    \/ \E k \in CycleIds, ok \in BOOLEAN : CycleConfigs(k, ok)
    \/ \E k \in CycleIds, ok \in BOOLEAN : CyclePersist(k, ok)
    \/ \E s \in Sessions : MonitorStop(s)
    \/ \E s \in Sessions : Disconnect(s)

SpecMonitor == InitMonitor /\ [][NextMonitor]_vars

InitLogs ==
    /\ dbUrl \in BOOLEAN
    /\ taskGroups = {}
    /\ taskGroupsAuto = 0
    /\ taskConfigs = {}
    /\ localData = EmptyData
    /\ issuedLocal = <<>>
    /\ pm2List \in [Pm2Ids -> {"absent", "online"}]
    /\ reqs = [c \in Clients |-> Idle]
    /\ out = NoOut
    /\ lastAssign = [p \in Pm2Ids |-> NoClaim]
    /\ sock = [s \in Sessions |-> "none"]
    /\ monitorInterval = [s \in Sessions |-> NoTimer]
    /\ timers = [t \in TimerIds |-> "none"]
    /\ cycles = [k \in CycleIds |-> FreeSlot]
    /\ monStopped = [s \in Sessions |-> FALSE]
    /\ performanceMetrics = {}
    /\ pm2Bus = [s \in Sessions |-> NoBus]
    /\ buses = [b \in BusIds |-> FreeBus]
    /\ streams = [k \in StreamIds |-> FreeSlot]
    /\ logStopped = [s \in Sessions |-> FALSE]
    /\ logFiles = [out |-> <<"o1", "o2">>, error |-> <<"e1">>]
    /\ logInserts = <<>>
    /\ busFeed = [b \in BusIds |-> <<>>]
    /\ busClock = 0
    /\ logEntries = {}

NextLogs ==
    \/ \E s \in Sessions : Connect(s)
    \/ \E s \in Sessions, p \in Pm2Ids, type \in {"stdout", "stderr", "both"} :
          LogsStream(s, p, type)
    \/ \E k \in StreamIds, ok \in BOOLEAN : StreamDescribe(k, ok)
    \/ \E k \in StreamIds, ok \in BOOLEAN : StreamRead(k, ok)
    \/ \E k \in StreamIds, ok \in BOOLEAN : StreamSend(k, ok)
    \/ \E k \in StreamIds, ok \in BOOLEAN : StreamBus(k, ok)
    \/ \E b \in BusIds, packet \in Packets, ok \in BOOLEAN : LiveLog(b, packet, ok)
    \/ \E s \in Sessions : LogsStop(s)
    \/ \E s \in Sessions : Disconnect(s)

SpecLogs == InitLogs /\ [][NextLogs]_vars

\* Live feed: the log-stream handlers with the supervisor publishing log events that the
\* buses receive and dispatch one at a time.
InitLive ==
    /\ dbUrl \in BOOLEAN
    /\ taskGroups = {}
    /\ taskGroupsAuto = 0
    /\ taskConfigs = {}
    /\ localData = EmptyData
    /\ issuedLocal = <<>>
    /\ pm2List = [p \in Pm2Ids |-> "online"]
    /\ reqs = [c \in Clients |-> Idle]
    /\ out = NoOut
    /\ lastAssign = [p \in Pm2Ids |-> NoClaim]
    /\ sock = [s \in Sessions |-> "none"]
    /\ monitorInterval = [s \in Sessions |-> NoTimer]
    /\ timers = [t \in TimerIds |-> "none"]
    /\ cycles = [k \in CycleIds |-> FreeSlot]
    /\ monStopped = [s \in Sessions |-> FALSE]
    /\ performanceMetrics = {}
    /\ pm2Bus = [s \in Sessions |-> NoBus]
    /\ buses = [b \in BusIds |-> FreeBus]
    /\ streams = [k \in StreamIds |-> FreeSlot]
    /\ logStopped = [s \in Sessions |-> FALSE]
    /\ logFiles = [out |-> <<"o1">>, error |-> <<>>]
    /\ logInserts = <<>>
    /\ busFeed = [b \in BusIds |-> <<>>]
    /\ busClock = 0
    /\ logEntries = {}

\* the events published in the live feed: log:out events with a line in data
LivePackets == {packet \in Packets : packet.event = "log:out" /\ packet.data # ""}

NextLive ==
    \/ \E s \in Sessions : Connect(s)
    \/ \E s \in Sessions, p \in Pm2Ids, type \in {"stdout", "stderr", "both"} :
          LogsStream(s, p, type)
    \/ \E k \in StreamIds, ok \in BOOLEAN : StreamDescribe(k, ok)
    \/ \E k \in StreamIds, ok \in BOOLEAN : StreamRead(k, ok)
    \/ \E k \in StreamIds, ok \in BOOLEAN : StreamSend(k, ok)
    \/ \E k \in StreamIds, ok \in BOOLEAN : StreamBus(k, ok)
    \/ \E packet \in LivePackets : BusPublish(packet)
    \/ \E b \in BusIds, ok \in BOOLEAN : BusDispatch(b, ok)
    \/ \E s \in Sessions : LogsStop(s)

SpecLive == InitLive /\ [][NextLive]_vars

\* the same, with the insert of a live line answered in a step of its own
NextPending ==
    \/ \E s \in Sessions : Connect(s)
    \/ \E s \in Sessions, p \in Pm2Ids, type \in {"stdout", "stderr", "both"} :
          LogsStream(s, p, type)
    \/ \E k \in StreamIds, ok \in BOOLEAN : StreamDescribe(k, ok)
    \/ \E k \in StreamIds, ok \in BOOLEAN : StreamRead(k, ok)
    \/ \E k \in StreamIds, ok \in BOOLEAN : StreamSend(k, ok)
    \/ \E k \in StreamIds, ok \in BOOLEAN : StreamBus(k, ok)
    \/ \E packet \in LivePackets : BusPublish(packet)
    \/ \E b \in BusIds : BusDeliver(b)
    \/ \E n \in 1 .. MaxEvents * MaxBuses, ok \in BOOLEAN : InsertLogEntryAnswer(n, ok)
    \/ \E s \in Sessions : LogsStop(s)

SpecPending == InitLive /\ [][NextPending]_vars

\* A session with both axes: the monitoring handlers and the log-stream handlers together.
\* On each axis a command or a tick comes when the axis has no handler in flight; the two
\* axes interleave freely.
InitSession ==
    /\ dbUrl \in BOOLEAN
    /\ taskGroups = {}
    /\ taskGroupsAuto = 0
    /\ taskConfigs = {}
    /\ localData = EmptyData
    /\ issuedLocal = <<>>
    /\ pm2List = [p \in Pm2Ids |-> IF p = 0 THEN "online" ELSE "absent"]
    /\ reqs = [c \in Clients |-> Idle]
    /\ out = NoOut
    /\ lastAssign = [p \in Pm2Ids |-> NoClaim]
    /\ sock = [s \in Sessions |-> "none"]
    /\ monitorInterval = [s \in Sessions |-> NoTimer]
    /\ timers = [t \in TimerIds |-> "none"]
    /\ cycles = [k \in CycleIds |-> FreeSlot]
    /\ monStopped = [s \in Sessions |-> FALSE]
    /\ performanceMetrics = {}
    /\ pm2Bus = [s \in Sessions |-> NoBus]
    /\ buses = [b \in BusIds |-> FreeBus]
    /\ streams = [k \in StreamIds |-> FreeSlot]
    /\ logStopped = [s \in Sessions |-> FALSE]
    /\ logFiles = [out |-> <<"o1">>, error |-> <<>>]
    /\ logInserts = <<>>
    /\ busFeed = [b \in BusIds |-> <<>>]
    /\ busClock = 0
    /\ logEntries = {}

NextSession ==
    \/ \E s \in Sessions : Connect(s)
    \/ \E s \in Sessions : FreeCycles = CycleIds /\ MonitorStart(s)
    \/ \E t \in TimerIds : FreeCycles = CycleIds /\ Tick(t)
    \/ \E k \in CycleIds, ok \in BOOLEAN : CycleFetch(k, ok)
    \/ \E k \in CycleIds, ok \in BOOLEAN : CycleConfigs(k, ok)
    \/ \E k \in CycleIds, ok \in BOOLEAN : CyclePersist(k, ok)
    \/ \E s \in Sessions : MonitorStop(s)
    \/ \E s \in Sessions, p \in Pm2Ids, type \in {"stdout", "stderr", "both"} :
          FreeStreams = StreamIds /\ LogsStream(s, p, type)
    \/ \E k \in StreamIds, ok \in BOOLEAN : StreamDescribe(k, ok)
    \/ \E k \in StreamIds, ok \in BOOLEAN : StreamRead(k, ok)
    \/ \E k \in StreamIds, ok \in BOOLEAN : StreamSend(k, ok)
    \/ \E k \in StreamIds, ok \in BOOLEAN : StreamBus(k, ok)
    \/ \E s \in Sessions : LogsStop(s)
    \/ \E s \in Sessions : Disconnect(s)

SpecSession == InitSession /\ [][NextSession]_vars

\* the assignments the two stores can hold for the processes: in task_configs at most one
\* row per pm2Id; in the data file the entries processes.updateGroup has pushed
GroupChoices == {NULL} \cup GroupIds
DbConfigSets ==
    {rows \in SUBSET [pm2Id : Pm2Ids, groupId : GroupChoices] :
        \A c, d \in rows : c.pm2Id = d.pm2Id => c = d}
LocalDatas ==
    LET one == {updateTaskConfigGroupLocal(EmptyData, p, g) : p \in Pm2Ids, g \in GroupChoices}
    IN  {EmptyData} \cup one
        \cup {updateTaskConfigGroupLocal(d, p, g) : d \in one, p \in Pm2Ids, g \in GroupChoices}

\* processes.list and the polling of one session over the same supervisor and stores
InitMerge ==
    /\ dbUrl \in BOOLEAN
    /\ taskGroups = {}
    /\ taskGroupsAuto = 0
    /\ taskConfigs \in DbConfigSets
    /\ localData \in LocalDatas
    /\ issuedLocal = <<>>
    /\ pm2List \in [Pm2Ids -> {"online", "stopped"}]
    /\ reqs = [c \in Clients |-> Idle]
    /\ out = NoOut
    /\ lastAssign = [p \in Pm2Ids |-> NoClaim]
    /\ sock = [s \in Sessions |-> "none"]
    /\ monitorInterval = [s \in Sessions |-> NoTimer]
    /\ timers = [t \in TimerIds |-> "none"]
    /\ cycles = [k \in CycleIds |-> FreeSlot]
    /\ monStopped = [s \in Sessions |-> FALSE]
    /\ performanceMetrics = {}
    /\ pm2Bus = [s \in Sessions |-> NoBus]
    /\ buses = [b \in BusIds |-> FreeBus]
    /\ streams = [k \in StreamIds |-> FreeSlot]
    /\ logStopped = [s \in Sessions |-> FALSE]
    /\ logFiles = [out |-> <<"o1", "o2">>, error |-> <<"e1">>]
    /\ logInserts = <<>>
    /\ busFeed = [b \in BusIds |-> <<>>]
    /\ busClock = 0
    /\ logEntries = {}

NextMerge ==
    \/ \E c \in Callers : ProcessesListFetch(c)
    \/ \E c \in Callers, ok \in BOOLEAN : ProcessesListMerge(c, ok)
    \/ \E s \in Sessions : Connect(s)
    \/ \E s \in Sessions : monitorInterval[s] = NoTimer /\ MonitorStart(s)
    \/ \E k \in CycleIds, ok \in BOOLEAN : CycleFetch(k, ok)
    \/ \E k \in CycleIds, ok \in BOOLEAN : CycleConfigs(k, ok)
    \/ \E k \in CycleIds, ok \in BOOLEAN : CyclePersist(k, ok)

SpecMerge == InitMerge /\ [][NextMerge]_vars

\* two observers, each with the socket of its own connection: s2 has connected, started
\* monitoring and a log stream of process 0 before, and its first run and its replay have
\* ended; s1 connects now and sends every command, s2 goes on or disconnects
Peers == {"s1", "s2"}

InitPeers ==
    /\ dbUrl = TRUE
    /\ taskGroups = {}
    /\ taskGroupsAuto = 0
    /\ taskConfigs = {}
    /\ localData = EmptyData
    /\ issuedLocal = <<>>
    /\ pm2List = [p \in Pm2Ids |-> IF p = 0 THEN "online" ELSE "absent"]
    /\ reqs = [c \in Clients |-> Idle]
    /\ out = NoOut
    /\ lastAssign = [p \in Pm2Ids |-> NoClaim]
    /\ sock = [s \in Peers |-> IF s = "s2" THEN "connected" ELSE "none"]
    /\ monitorInterval = [s \in Peers |-> IF s = "s2" THEN 1 ELSE NoTimer]
    /\ timers = [t \in TimerIds |-> IF t = 1 THEN "s2" ELSE "none"]
    /\ cycles = [k \in CycleIds |-> FreeSlot]
    /\ monStopped = [s \in Peers |-> FALSE]
    /\ performanceMetrics = {[pm2Id |-> 0]}
    /\ pm2Bus = [s \in Peers |-> IF s = "s2" THEN 1 ELSE NoBus]
    /\ buses = [b \in BusIds |-> IF b = 1 THEN [st |-> "open", sess |-> "s2", pm2Id |-> 0]
                                  ELSE FreeBus]
    /\ streams = [k \in StreamIds |-> FreeSlot]
    /\ logStopped = [s \in Peers |-> FALSE]
    /\ logFiles = [out |-> <<"o1">>, error |-> <<>>]
    /\ logInserts = <<>>
    /\ busFeed = [b \in BusIds |-> <<>>]
    /\ busClock = 0
    /\ logEntries = {Stored(LogRow(0, "stdout", "o1"))}

NextPeers ==
    \/ Connect("s1")
    \/ FreeCycles = CycleIds /\ MonitorStart("s1")
    \/ \E t \in TimerIds : FreeCycles = CycleIds /\ Tick(t)
    \/ \E k \in CycleIds, ok \in BOOLEAN : CycleFetch(k, ok)
    \/ \E k \in CycleIds, ok \in BOOLEAN : CycleConfigs(k, ok)
    \/ \E k \in CycleIds, ok \in BOOLEAN : CyclePersist(k, ok)
    \/ MonitorStop("s1")
    \/ FreeStreams = StreamIds /\ LogsStream("s1", 0, "stdout")
    \/ \E k \in StreamIds, ok \in BOOLEAN : StreamDescribe(k, ok)
    \/ \E k \in StreamIds, ok \in BOOLEAN : StreamRead(k, ok)
    \/ \E k \in StreamIds, ok \in BOOLEAN : StreamSend(k, ok)
    \/ \E k \in StreamIds, ok \in BOOLEAN : StreamBus(k, ok)
    \/ \E packet \in LivePackets : packet.pm_id = 0 /\ BusPublish(packet)
    \/ \E b \in BusIds, ok \in BOOLEAN : BusDispatch(b, ok)
    \/ LogsStop("s1")
    \/ \E s \in Peers : Disconnect(s)

SpecPeers == InitPeers /\ [][NextPeers]_vars

\* The Config Store called directly, over tables holding rows of several ages.
metricsDaysToKeep == 7
logsDaysToKeep == 30

MetricFixture == {[pm2Id |-> 0, timestamp |-> Now - d] :
                     d \in {metricsDaysToKeep - 1, metricsDaysToKeep + 1}}
LogFixture == {[pm2Id |-> 0, timestamp |-> Now - d] :
                  d \in {logsDaysToKeep - 1, logsDaysToKeep + 1}}

InitStore ==
    /\ dbUrl \in BOOLEAN
    /\ taskGroupsAuto \in {0, 1}
    /\ taskGroups = {[id |-> i, name |-> "web", color |-> "#3B82F6"] : i \in 1 .. taskGroupsAuto}
    /\ taskConfigs \in {{}, {[pm2Id |-> 0, groupId |-> 1]}}
    /\ localData = EmptyData
    /\ issuedLocal = <<>>
    /\ pm2List = [p \in Pm2Ids |-> "online"]
    /\ reqs = [c \in Clients |-> Idle]
    /\ out = NoOut
    /\ lastAssign = [p \in Pm2Ids |-> NoClaim]
    /\ sock = [s \in Sessions |-> "none"]
    /\ monitorInterval = [s \in Sessions |-> NoTimer]
    /\ timers = [t \in TimerIds |-> "none"]
    /\ cycles = [k \in CycleIds |-> FreeSlot]
    /\ monStopped = [s \in Sessions |-> FALSE]
    /\ performanceMetrics \in SUBSET MetricFixture
    /\ pm2Bus = [s \in Sessions |-> NoBus]
    /\ buses = [b \in BusIds |-> FreeBus]
    /\ streams = [k \in StreamIds |-> FreeSlot]
    /\ logStopped = [s \in Sessions |-> FALSE]
    /\ logFiles = [out |-> <<"o1", "o2">>, error |-> <<"e1">>]
    /\ logInserts = <<>>
    /\ busFeed = [b \in BusIds |-> <<>>]
    /\ busClock = 0
    /\ logEntries \in SUBSET LogFixture

NextStore ==
    \/ \E q \in 0 .. 1 : DbGetAllTaskGroups(q)
    \/ \E q \in 0 .. 1 : DbGetAllTaskConfigs(q)
    \/ \E p \in {0}, q \in 0 .. 1 : DbGetPerformanceMetrics(p, q)
    \/ \E p \in {0}, q \in 0 .. 1 : DbGetLogEntries(p, q)
    \/ \E p \in {0}, q \in 0 .. 1 : DbInsertPerformanceMetric(p, q)
    \/ \E p \in {0}, q \in 0 .. 1 : DbInsertLogEntry(p, q)
    \/ \E d \in {1, metricsDaysToKeep}, q \in 0 .. 1 : DbCleanOldPerformanceMetrics(d, q)
    \/ \E d \in {1, logsDaysToKeep}, q \in 0 .. 1 : DbCleanOldLogEntries(d, q)
    \/ \E name \in Names, color \in Colors, q \in 0 .. 2 : DbCreateTaskGroup(name, color, q)
    \/ \E id \in GroupIds, name \in {"api"}, q \in 0 .. 2 : DbUpdateTaskGroup(id, name, q)
    \/ \E id \in GroupIds, q \in 0 .. 2 : DbDeleteTaskGroup(id, q)
    \/ \E p \in {0}, g \in {NULL, 1}, q \in 0 .. 3 : DbUpsertTaskConfig(p, g, q)
    \/ \E p \in {0}, g \in {NULL, 1}, q \in 0 .. 1 : DbUpdateTaskConfigGroup(p, g, q)

SpecStore == InitStore /\ [][NextStore]_vars

\* monitoring while processes leave the supervisor; both stores hold assignments, also
\* of processes the supervisor does not have
InitView ==
    /\ dbUrl \in BOOLEAN
    /\ taskGroups = {}
    /\ taskGroupsAuto = 0
    /\ taskConfigs \in {{}, {[pm2Id |-> 1, groupId |-> 1]}}
    /\ localData \in {EmptyData, updateTaskConfigGroupLocal(EmptyData, 0, 2)}
    /\ issuedLocal = <<>>
    /\ pm2List \in [Pm2Ids -> {"absent", "online"}]
    /\ reqs = [c \in Clients |-> Idle]
    /\ out = NoOut
    /\ lastAssign = [p \in Pm2Ids |-> NoClaim]
    /\ sock = [s \in Sessions |-> "none"]
    /\ monitorInterval = [s \in Sessions |-> NoTimer]
    /\ timers = [t \in TimerIds |-> "none"]
    /\ cycles = [k \in CycleIds |-> FreeSlot]
    /\ monStopped = [s \in Sessions |-> FALSE]
    /\ performanceMetrics = {}
    /\ pm2Bus = [s \in Sessions |-> NoBus]
    /\ buses = [b \in BusIds |-> FreeBus]
    /\ streams = [k \in StreamIds |-> FreeSlot]
    /\ logStopped = [s \in Sessions |-> FALSE]
    /\ logFiles = [out |-> <<"o1", "o2">>, error |-> <<"e1">>]
    /\ logInserts = <<>>
    /\ busFeed = [b \in BusIds |-> <<>>]
    /\ busClock = 0
    /\ logEntries = {}

NextView ==
    \/ \E p \in Pm2Ids : Pm2Delete(p)
    \/ \E s \in Sessions : Connect(s)
    \/ \E s \in Sessions : MonitorStart(s)
    \/ \E t \in TimerIds : Tick(t)
    \/ \E k \in CycleIds, ok \in BOOLEAN : CycleFetch(k, ok)
    \/ \E k \in CycleIds, ok \in BOOLEAN : CycleConfigs(k, ok)
    \/ \E k \in CycleIds, ok \in BOOLEAN : CyclePersist(k, ok)
    \/ \E s \in Sessions : MonitorStop(s)
    \/ \E s \in Sessions : Disconnect(s)

SpecView == InitView /\ [][NextView]_vars

\* batch operations of one caller over every state of the supervisor
InitBatch ==
    /\ dbUrl \in BOOLEAN
    /\ taskGroups = {}
    /\ taskGroupsAuto = 0
    /\ taskConfigs \in {{}, {[pm2Id |-> 0, groupId |-> 1]}}
    /\ localData = EmptyData
    /\ issuedLocal = <<>>
    /\ pm2List \in [Pm2Ids -> {"absent", "online", "stopped"}]
    /\ reqs = [c \in Clients |-> Idle]
    /\ out = NoOut
    /\ lastAssign = [p \in Pm2Ids |-> NoClaim]
    /\ sock = [s \in Sessions |-> "none"]
    /\ monitorInterval = [s \in Sessions |-> NoTimer]
    /\ timers = [t \in TimerIds |-> "none"]
    /\ cycles = [k \in CycleIds |-> FreeSlot]
    /\ monStopped = [s \in Sessions |-> FALSE]
    /\ performanceMetrics = {}
    /\ pm2Bus = [s \in Sessions |-> NoBus]
    /\ buses = [b \in BusIds |-> FreeBus]
    /\ streams = [k \in StreamIds |-> FreeSlot]
    /\ logStopped = [s \in Sessions |-> FALSE]
    /\ logFiles = [out |-> <<"o1", "o2">>, error |-> <<"e1">>]
    /\ logInserts = <<>>
    /\ busFeed = [b \in BusIds |-> <<>>]
    /\ busClock = 0
    /\ logEntries = {}

NextBatch ==
    \E c \in Callers, pm2Ids \in BatchLists, operation \in {"stop", "restart", "delete"},
       daemonOk \in BOOLEAN, dbOk \in BOOLEAN :
        ProcessesBatchOperation(c, pm2Ids, operation, daemonOk, dbOk)

SpecBatch == InitBatch /\ [][NextBatch]_vars

\* groups.create with inputs that pass and inputs that fail the input schema
NextValidate ==
    \/ \E c \in Callers, name \in {"", "web"}, color \in GoodColors \cup BadColors :
          GroupsCreateRequest(c, name, color)
    \/ \E c \in Callers, ok \in BOOLEAN : GroupsCreateInsert(c, ok)
    \/ \E c \in Callers, ok \in BOOLEAN : GroupsCreateFetch(c, ok)
    \/ \E c \in Callers : GroupsList(c)
    \/ \E c \in Callers, ok \in BOOLEAN : GroupsListSelect(c, ok)

SpecValidate == Init /\ [][NextValidate]_vars

\* groups.create and groups.list of one caller, from no groups
NextGroups ==
    \/ \E c \in Callers, name \in GroupNames, color \in Colors : GroupsCreate(c, name, color)
    \/ \E c \in Callers, ok \in BOOLEAN : GroupsCreateInsert(c, ok)
    \/ \E c \in Callers, ok \in BOOLEAN : GroupsCreateFetch(c, ok)
    \/ \E c \in Callers : GroupsList(c)
    \/ \E c \in Callers, ok \in BOOLEAN : GroupsListSelect(c, ok)

SpecGroups == Init /\ [][NextGroups]_vars

\* the group procedures with groups.delete
NextRemove ==
    \/ \E c \in Callers, name \in GroupNames, color \in Colors : GroupsCreate(c, name, color)
    \/ \E c \in Callers, ok \in BOOLEAN : GroupsCreateInsert(c, ok)
    \/ \E c \in Callers, ok \in BOOLEAN : GroupsCreateFetch(c, ok)
    \/ \E c \in Callers : GroupsList(c)
    \/ \E c \in Callers, ok \in BOOLEAN : GroupsListSelect(c, ok)
    \/ \E c \in Callers, id \in GroupIds : GroupsDelete(c, id)
    \/ \E c \in Callers, ok \in BOOLEAN : GroupsDeleteCascade(c, ok)
    \/ \E c \in Callers, ok \in BOOLEAN : GroupsDeleteFinish(c, ok)

SpecRemove == Init /\ [][NextRemove]_vars

\* The Fallback Store called directly, its file reads and writes succeeding or failing.
NextLocal ==
    \/ \E name \in Names, color \in Colors, readOk \in BOOLEAN, writeOk \in BOOLEAN :
          LocalCreateTaskGroup(name, color, readOk, writeOk)
    \/ \E id \in GroupIds, name \in {"api"}, readOk \in BOOLEAN, writeOk \in BOOLEAN :
          LocalUpdateTaskGroup(id, name, readOk, writeOk)
    \/ \E id \in GroupIds, readOk \in BOOLEAN, writeOk \in BOOLEAN :
          LocalDeleteTaskGroup(id, readOk, writeOk)
    \/ \E p \in Pm2Ids, g \in GroupIds \cup {NULL}, readOk \in BOOLEAN, writeOk \in BOOLEAN :
          LocalUpdateTaskConfigGroup(p, g, readOk, writeOk)

SpecLocal == Init /\ [][NextLocal]_vars

\* Two callers of the routing layer whose group assignments and group deletions overlap.
NextShared ==
    \/ \E c \in Clients, p \in Pm2Ids, g \in GroupIds \cup {NULL} : ProcessesUpdateGroup(c, p, g)
    \/ \E c \in Clients, ok \in BOOLEAN : ProcessesUpdateGroupDb(c, ok)
    \/ \E c \in Clients, id \in GroupIds : GroupsDelete(c, id)
    \/ \E c \in Clients, ok \in BOOLEAN : GroupsDeleteCascade(c, ok)
    \/ \E c \in Clients, ok \in BOOLEAN : GroupsDeleteFinish(c, ok)

SpecShared == Init /\ [][NextShared]_vars

\* a log file of n lines, and the lengths around the tail window
FileOfLen(n) == [i \in 1 .. n |-> ToString(i)]
TailLens == {0, 1, maxLines - 1} \cup (maxLines .. (maxLines + MaxOver))

\* one session whose log-stream requests follow one another, over files of those lengths
InitTail ==
    /\ dbUrl \in BOOLEAN
    /\ taskGroups = {}
    /\ taskGroupsAuto = 0
    /\ taskConfigs = {}
    /\ localData = EmptyData
    /\ issuedLocal = <<>>
    /\ pm2List = [p \in Pm2Ids |-> "online"]
    /\ reqs = [c \in Clients |-> Idle]
    /\ out = NoOut
    /\ lastAssign = [p \in Pm2Ids |-> NoClaim]
    /\ sock = [s \in Sessions |-> "none"]
    /\ monitorInterval = [s \in Sessions |-> NoTimer]
    /\ timers = [t \in TimerIds |-> "none"]
    /\ cycles = [k \in CycleIds |-> FreeSlot]
    /\ monStopped = [s \in Sessions |-> FALSE]
    /\ performanceMetrics = {}
    /\ pm2Bus = [s \in Sessions |-> NoBus]
    /\ buses = [b \in BusIds |-> FreeBus]
    /\ streams = [k \in StreamIds |-> FreeSlot]
    /\ logStopped = [s \in Sessions |-> FALSE]
    /\ logFiles \in {[out |-> FileOfLen(n), error |-> e] : n \in TailLens, e \in {<<>>, <<"e1">>}}
    /\ logInserts = <<>>
    /\ busFeed = [b \in BusIds |-> <<>>]
    /\ busClock = 0
    /\ logEntries = {}

NextTail ==
    \/ \E s \in Sessions : Connect(s)
    \/ \E s \in Sessions, p \in Pm2Ids, type \in {"stdout", "stderr", "both"} :
          FreeStreams = StreamIds /\ LogsStream(s, p, type)
    \/ \E k \in StreamIds, ok \in BOOLEAN : StreamDescribe(k, ok)
    \/ \E k \in StreamIds, ok \in BOOLEAN : StreamRead(k, ok)
    \/ \E k \in StreamIds, ok \in BOOLEAN : StreamSend(k, ok)
    \/ \E k \in StreamIds, ok \in BOOLEAN : StreamBus(k, ok)
    \/ \E s \in Sessions : LogsStop(s)

SpecTail == InitTail /\ [][NextTail]_vars

\* ------------------------------------------------------------------ claims
\* the precedence law: the Fallback Store's value when it has an entry for p
\* (a null group id included), else the Config Store's value, else null
HasLocal(localConfigs, p) == \E i \in 1 .. Len(localConfigs) : localConfigs[i].pm2Id = p
PrecedenceGroupId(localConfigs, dbConfigs, p) ==
    IF HasLocal(localConfigs, p) THEN localGroupId(localConfigs, p)
    ELSE dbGroupId(dbConfigs, p)

\* C1: every merged view reports, for each process, the Fallback Store's group id
\* when the Fallback Store has an entry for it (null included), else the Config
\* Store's, else null.  (The stores a view was merged from are those of the state
\* in which it is returned: the merging step changes neither.)
C1_PrecedenceLaw ==
    \A n \in 1 .. Len(out) :
        out[n].kind = "list" =>
            \A i \in 1 .. Len(out[n].view) :
                out[n].view[i].groupId =
                    PrecedenceGroupId(getAllTaskConfigsLocal, getAllTaskConfigs,
                                      out[n].view[i].pm_id)

\* C2: once updateGroup(p, g) has completed, every later merged view reports g for p
\* until the next updateGroup on p or a deletion of group g, whatever the Config
\* Store holds for p.
C2_UpdateGroupSticks ==
    \A n \in 1 .. Len(out) :
        out[n].kind = "list" =>
            \A i \in 1 .. Len(out[n].view) :
                lastAssign[out[n].view[i].pm_id].set =>
                    out[n].view[i].groupId = lastAssign[out[n].view[i].pm_id].groupId

\* the intervals of session s that are set and not cleared
ActiveTimers(s) == {t \in TimerIds : timers[t] = s}
\* the runs of fetchAndSendProcesses of session s in flight
ActiveCycles(s) == {k \in CycleIds : cycles[k].pc # "free" /\ cycles[k].sess = s}
PushedTo(s) ==
    \E n \in 1 .. Len(out) :
        out[n].kind = "emit" /\ out[n].type = "processes:update" /\ out[n].to = s
MetricCallBy(s) ==
    \E n \in 1 .. Len(out) :
        out[n].kind = "call" /\ out[n].fn = "insertPerformanceMetric" /\ out[n].by = s
WasHandled(s, cmd) ==
    \E n \in 1 .. Len(out) : out[n].kind = "handled" /\ out[n].cmd = cmd /\ out[n].to = s

\* C3: in every reachable state a session has at most one active polling timer.
C3_OnePollingTimer == \A s \in Sessions : Cardinality(ActiveTimers(s)) <= 1

\* C5: after a session has disconnected, no processes-update is pushed to it and no
\* MetricSample is appended on its behalf.
C5_NoMonitoringAfterDisconnect ==
    \A s \in Sessions : sock[s] = "disconnected" => ~PushedTo(s) /\ ~MetricCallBy(s)

\* C8: a stop-monitoring command handled right after another stop-monitoring of the
\* session (no start-monitoring in between) leaves the session with no active polling
\* timer and no polling handle.
C8_StopLeavesNoTimer ==
    [][\A s \in Sessions :
          monStopped[s] /\ MonitorStop(s) =>
              {t \in TimerIds : timers'[t] = s} = {} /\ monitorInterval'[s] = NoTimer]_vars

\* C9: from a handled stop-monitoring to the next start-monitoring, no polling timer
\* of the session is pending and no processes-update is pushed to it.
C9_StoppedStaysStopped ==
    \A s \in Sessions : monStopped[s] => ActiveTimers(s) = {} /\ ~PushedTo(s)

\* C10: the polling cycles of one session never overlap: no two runs started by ticks
\* of the session's timers are in flight (fetch, merge, push, persist) at once.
C10_CyclesNeverOverlap ==
    \A s \in Sessions :
        \A k, j \in ActiveCycles(s) :
            cycles[k].from = "tick" /\ cycles[j].from = "tick" => k = j

\* the open buses whose logHandler emits to session s
OpenBuses(s) == {b \in BusIds : buses[b].st = "open" /\ buses[b].sess = s}
LogLineTo(s) ==
    \E n \in 1 .. Len(out) :
        out[n].kind = "emit" /\ out[n].type = "logs:data" /\ out[n].to = s
LogCallBy(s) ==
    \E n \in 1 .. Len(out) :
        out[n].kind = "call" /\ out[n].fn = "insertLogEntry" /\ out[n].by = s

\* C4: in every reachable state a session has at most one active live log subscription.
C4_OneLogSubscription == \A s \in Sessions : Cardinality(OpenBuses(s)) <= 1

\* C6: after a session has disconnected, no log-line is emitted to it and no LogLine
\* is persisted on its behalf.
C6_NoLogsAfterDisconnect ==
    \A s \in Sessions : sock[s] = "disconnected" => ~LogLineTo(s) /\ ~LogCallBy(s)

\* C7: from a handled stop-log-stream to the next start-log-stream, the session has no
\* live subscription, no log-line is emitted to it and no LogLine is persisted for it.
C7_StopEndsLogStream ==
    \A s \in Sessions : logStopped[s] => OpenBuses(s) = {} /\ ~LogLineTo(s) /\ ~LogCallBy(s)

\* C11: a polling cycle whose fetch (listProcesses, getAllTaskConfigs) or persist
\* (insertPerformanceMetric) step fails emits an error event to its session and does not
\* stop the polling: no interval is cleared, and when the failing cycle is the immediate
\* first one its interval is still created and recorded in the session.
C11_FailureKeepsPolling ==
    [][\A k \in CycleIds :
          (CycleFetch(k, FALSE) \/ CycleConfigs(k, FALSE) \/ CyclePersist(k, FALSE)) =>
              /\ \E n \in 1 .. Len(out') : out'[n] = Emit(cycles[k].sess, "error")
              /\ \A t \in TimerIds : timers[t] # "none" => timers'[t] = timers[t]
              /\ cycles[k].from = "start" =>
                     \E t \in TimerIds :
                         /\ timers[t] = "none"
                         /\ timers'[t] = cycles[k].sess
                         /\ monitorInterval'[cycles[k].sess] = t]_vars

\* a cycle of s has just failed and an interval of s is scheduled
C11_Witness ==
    \E s \in Sessions :
        /\ \E n \in 1 .. Len(out) : out[n] = Emit(s, "error")
        /\ ActiveTimers(s) # {}

\* the pm_ids of the online snapshots, in snapshot order
OnlineIds(processes) ==
    LET online == SelectSeq(processes, LAMBDA proc : proc.status = "online")
    IN  [n \in 1 .. Len(online) |-> online[n].pm_id]
\* the pm2Ids of the MetricSamples whose insert for session s is carried out in events
SamplesIn(events, s) ==
    LET rows == SelectSeq(events, LAMBDA e : e.kind = "insert" /\ e.by = s
                                              /\ e.fn = "insertPerformanceMetric")
    IN  [n \in 1 .. Len(rows) |-> rows[n].row.pm2Id]
\* run k of fetchAndSendProcesses returns in this step and has not failed
CompletesOk(k) ==
    /\ cycles[k].pc # "free"
    /\ cycles'[k] = FreeSlot
    /\ \A n \in 1 .. Len(out') : out'[n] # Emit(cycles[k].sess, "error")
\* the snapshots run k works on: fetched in this step, or kept since the fetch
SnapshotsOf(k) == IF cycles[k].pc = "fetch" THEN listProcesses ELSE cycles[k].processes
\* the MetricSamples run k has appended when it returns in this step
SamplesOf(k) == cycles[k].appended \o SamplesIn(out', cycles[k].sess)

\* C12 (as stated): every polling cycle that completes without failure has appended
\* exactly one MetricSample for each online snapshot and none for any other.
C12_OneSamplePerOnline ==
    [][\A k \in CycleIds : CompletesOk(k) => SamplesOf(k) = OnlineIds(SnapshotsOf(k))]_vars

\* C12 (amended): with a database configured, every polling cycle that completes without
\* failure has appended exactly one MetricSample for each online snapshot, in snapshot
\* order, and none for any other; with no database configured it has appended none.
C12_OneSamplePerOnlineWithDb ==
    [][\A k \in CycleIds :
          CompletesOk(k) =>
              SamplesOf(k) = IF getDb THEN OnlineIds(SnapshotsOf(k)) ELSE <<>>]_vars

\* a cycle over an online and a stopped snapshot has just appended its last sample
C12_Witness ==
    /\ \E s \in Sessions, p \in Pm2Ids :
          out = <<Inserted(s, "insertPerformanceMetric", [pm2Id |-> p])>>
    /\ \E p, q \in Pm2Ids : pm2List[p] = "online" /\ pm2List[q] = "stopped"

\* C13: when the supervisor answers the describe of a log-stream request for a process
\* id it does not know, the request emits the error "Process not found" and nothing
\* else, and ends there: no log-line, no insertLogEntry call, no file read, no bus, no
\* change of the session's log handle or of the log table.
C13_UnknownProcess ==
    [][\A k \in StreamIds :
          /\ streams[k].pc = "describe"
          /\ pm2List[streams[k].pm2Id] = "absent"
          /\ streams'[k] # streams[k]
          /\ out' # <<ErrorTo(streams[k].sess, "Failed to stream logs")>>
          => /\ out' = <<ErrorTo(streams[k].sess, "Process not found")>>
             /\ streams'[k] = FreeSlot
             /\ UNCHANGED <<buses, pm2Bus, logEntries>>]_vars

\* "Process not found" has just been emitted
C13_Witness == \E s \in Sessions : out = <<ErrorTo(s, "Process not found")>>

\* the last min(Len(file), maxLines) lines of a file
LastLines(file) ==
    LET n == IF Len(file) < maxLines THEN Len(file) ELSE maxLines
    IN  SubSeq(file, Len(file) - n + 1, Len(file))
\* the contents of the log-lines emitted to session s in events
LinesIn(events, s) ==
    LET data == SelectSeq(events, LAMBDA e : e.kind = "emit" /\ e.type = "logs:data" /\ e.to = s)
    IN  [n \in 1 .. Len(data) |-> data[n].content]
\* request k is done with the file it was reading or replaying, and no read or insert failed
FileReplayed(k) ==
    /\ streams[k].pc \in {"read", "send"}
    /\ streams'[k].paths # streams[k].paths
    /\ ~StreamRead(k, FALSE)
    /\ ~StreamSend(k, FALSE)

\* C14: a historical replay of a file of K lines in which no read and no insert fails has
\* emitted exactly the last min(K, maxLines) lines of the file, in file order, when it is
\* done with the file; and the window of a request never holds more than maxLines lines.
C14_TailWindow ==
    [][\A k \in StreamIds :
          /\ streams'[k].pc # "free" => Len(streams'[k].lines) <= maxLines
          /\ FileReplayed(k) =>
                 streams[k].emitted \o LinesIn(out', streams[k].sess)
                     = LastLines(logFile(Head(streams[k].paths)))]_vars

\* a file longer than the window has just been replayed in one go: maxLines lines emitted
C14_Witness ==
    /\ Len(logFiles.out) > maxLines
    /\ \E s \in Sessions : LinesIn(out, s) = LastLines(logFiles.out)

\* C15: when the open or read of a selected log file fails, the request emits no error
\* event and goes on: with the other selected file when there is one (opened, nothing of
\* it read yet), else with the live bus; nothing but the request's own position changes.
C15_FileFailureSkipsFile ==
    [][\A k \in StreamIds :
          StreamRead(k, FALSE) =>
              /\ out' = NoOut
              /\ UNCHANGED <<buses, pm2Bus, logEntries>>
              /\ streams'[k].paths = Tail(streams[k].paths)
              /\ IF streams'[k].paths # <<>>
                 THEN /\ streams'[k].pc = "read"
                      /\ streams'[k].file = logFile(Head(streams'[k].paths))
                 ELSE streams'[k].pc = "bus"]_vars

\* the out file of a request for both files failed, and a line of its error file has
\* just been emitted
C15_Witness ==
    \E k \in StreamIds :
        /\ streams[k].pc # "free"
        /\ streams[k].type = "both"
        /\ streams[k].skipped = <<pm_out_log_path(streams[k].pm2Id)>>
        /\ streams[k].paths = <<pm_err_log_path(streams[k].pm2Id)>>
        /\ LinesIn(out, streams[k].sess) # <<>>

IsLogLine(e) == e.kind = "emit" /\ e.type = "logs:data"
IsLogCall(e) == e.kind = "call" /\ e.fn = "insertLogEntry"
IsLogInsert(e) == e.kind = "insert" /\ e.fn = "insertLogEntry"
\* the LogLine that a log-line event stands for
RowOfLine(e) == [pm2Id |-> e.pm2Id, type |-> e.logType, content |-> e.content]
\* the LogLine whose insert a request at "send" awaits
PendingRowOf(stream) ==
    [pm2Id |-> stream.pm2Id, type |-> typeOfPath(Head(stream.paths)), content |-> stream.sent]
\* in events, every log-line is followed at once by the insertLogEntry call of the same
\* session for the same LogLine, and every such call follows its log-line
LinesAndCallsPaired(events) ==
    \A n \in 1 .. Len(events) :
        /\ IsLogLine(events[n]) =>
               /\ n < Len(events)
               /\ IsLogCall(events[n + 1])
               /\ events[n + 1].by = events[n].to
               /\ events[n + 1].row = RowOfLine(events[n])
        /\ IsLogCall(events[n]) => n > 1 /\ IsLogLine(events[n - 1])
\* every insert carried out in this step is that of a call: of the call just before it, or
\* of the one a request was awaiting; and there is at most one
InsertsAnswerCalls ==
    /\ Cardinality({n \in 1 .. Len(out') : IsLogInsert(out'[n])}) <= 1
    /\ \A n \in 1 .. Len(out') :
           IsLogInsert(out'[n]) =>
               /\ getDb
               /\ \/ /\ n > 1
                     /\ IsLogCall(out'[n - 1])
                     /\ out'[n - 1].by = out'[n].by
                     /\ out'[n - 1].row = out'[n].row
                  \/ /\ n = 1
                     /\ \E k \in StreamIds :
                            /\ streams[k].pc = "send"
                            /\ streams'[k] # streams[k]
                            /\ streams[k].sess = out'[n].by
                            /\ PendingRowOf(streams[k]) = out'[n].row
\* every log-line emitted in this step is persisted in it or awaits its insert after it,
\* and every awaited insert is carried out when the request goes on
EveryLinePersisted ==
    /\ \A n \in 1 .. Len(out') :
           IsLogLine(out'[n]) =>
               \/ \E m \in 1 .. Len(out') :
                      IsLogInsert(out'[m]) /\ out'[m].row = RowOfLine(out'[n])
               \/ \E k \in StreamIds :
                      /\ streams'[k].pc = "send"
                      /\ streams'[k].sess = out'[n].to
                      /\ PendingRowOf(streams'[k]) = RowOfLine(out'[n])
    /\ \A k \in StreamIds :
           streams[k].pc = "send" /\ streams'[k] # streams[k] =>
               \E m \in 1 .. Len(out') :
                   IsLogInsert(out'[m]) /\ out'[m].row = PendingRowOf(streams[k])

\* C16 (as stated): every log-line delivered to the observer, historical or live, is
\* persisted as a LogLine with the same process id, kind and content, exactly once, and
\* no LogLine is persisted for a line that was not delivered.
C16_DeliveredIsPersisted ==
    [][LinesAndCallsPaired(out') /\ InsertsAnswerCalls /\ EveryLinePersisted]_vars

\* C16 (amended): every log-line emitted, historical or live, is handed to insertLogEntry
\* exactly once, right after its emit, with the same process id, kind and content; no
\* such call is made for a line not emitted; and a LogLine is persisted only as the
\* answer to one such call, at most once per call, and only with a database configured.
C16_DeliveredIsHandedToStore ==
    [][LinesAndCallsPaired(out') /\ InsertsAnswerCalls]_vars

\* a line has just been emitted, handed to the store and persisted by a logHandler
C16_Witness ==
    /\ logEntries # {}
    /\ \E n \in 1 .. Len(out) : IsLogInsert(out[n]) /\ n > 1

\* a log-line of the live feed
IsLiveLine(e) == IsLogLine(e) /\ e.timestamp # Now

\* C17: a live log-line emitted to a session that has a subscription recorded carries the
\* process id that this subscription was requested for: no live event of another
\* process reaches the observer.
C17_OnlyRequestedProcess ==
    \A n \in 1 .. Len(out) :
        IsLiveLine(out[n]) /\ pm2Bus[out[n].to] # NoBus =>
            out[n].pm2Id = buses[pm2Bus[out[n].to]].pm2Id

ReplayedOf(replayed, f) ==
    LET from == SelectSeq(replayed, LAMBDA e : e.file = f)
    IN  [i \in 1 .. Len(from) |-> from[i].line]

IsPrefix(a, b) == Len(a) <= Len(b) /\ \A i \in 1 .. Len(a) : a[i] = b[i]

\* C19: for a request of kind both, the lines emitted from each file are, in order, the
\* first of the file's retained lines; no line of the out file is emitted after a line of
\* the error file; and once a line of the error file is emitted, every retained line of
\* the out file has been (unless reading the out file failed).
C19_OutFileBeforeErrorFile ==
    \A k \in StreamIds :
        streams[k].pc # "free" /\ streams[k].type = "both" =>
            LET replayed == streams[k].replayed
            IN  /\ \A f \in {"out", "error"} :
                       IsPrefix(ReplayedOf(replayed, f), LastLines(logFiles[f]))
                /\ \A i, j \in 1 .. Len(replayed) :
                       replayed[i].file = "error" /\ replayed[j].file = "out" => j < i
                /\ (\E i \in 1 .. Len(replayed) : replayed[i].file = "error")
                   /\ (\A i \in 1 .. Len(streams[k].skipped) :
                           streams[k].skipped[i].file # "out")
                   => ReplayedOf(replayed, "out") = LastLines(logFiles.out)

\* a request of kind both has emitted both lines of the out file and then the line of
\* the error file
C19_Witness ==
    \E k \in StreamIds :
        /\ streams[k].pc # "free"
        /\ streams[k].type = "both"
        /\ Len(logFiles.out) > 1
        /\ logFiles.error # <<>>
        /\ ReplayedOf(streams[k].replayed, "out") = logFiles.out
        /\ ReplayedOf(streams[k].replayed, "error") = logFiles.error

\* the polling timer of session s is set and armed
Monitoring(s) == monitorInterval[s] # NoTimer /\ timers[monitorInterval[s]] = s

\* the log subscription of session s is recorded and open
Streaming(s) == pm2Bus[s] # NoBus /\ buses[pm2Bus[s]].st = "open"

\* C20: the steps of monitor:start and monitor:stop (and of the polling runs) leave the
\* log subscriptions, the log-stream handlers in flight and the bus handle as they are;
\* the steps of logs:stream and logs:stop leave the polling timers, the polling runs and
\* the timer handle as they are.
C20_AxesIndependent ==
    [][/\ \A s \in Sessions :
              MonitorStart(s) \/ MonitorStop(s) => UNCHANGED <<pm2Bus, buses, streams>>
       /\ \A k \in CycleIds, ok \in BOOLEAN :
              CycleFetch(k, ok) \/ CycleConfigs(k, ok) \/ CyclePersist(k, ok) =>
                  UNCHANGED <<pm2Bus, buses, streams>>
       /\ \A s \in Sessions :
              (\E p \in Pm2Ids, type \in {"stdout", "stderr", "both"} : LogsStream(s, p, type))
              \/ LogsStop(s) => UNCHANGED <<monitorInterval, timers, cycles>>
       /\ \A k \in StreamIds, ok \in BOOLEAN :
              StreamDescribe(k, ok) \/ StreamRead(k, ok) \/ StreamSend(k, ok)
              \/ StreamBus(k, ok) => UNCHANGED <<monitorInterval, timers, cycles>>]_vars

\* a connected session is monitoring and streaming at once
C20_Witness ==
    \E s \in Sessions : sock[s] = "connected" /\ Monitoring(s) /\ Streaming(s)

\* the answer of a Config Store call in the events of a step
IsDbAnswer(e) == e.kind \in {"returned", "threw"}

Unreachable(e) == e.backend \in {"none", "down"}

ReadAppendPurge ==
    {"getAllTaskGroups", "getAllTaskConfigs", "getPerformanceMetrics", "getLogEntries",
     "insertPerformanceMetric", "insertLogEntry", "cleanOldPerformanceMetrics",
     "cleanOldLogEntries"}

GroupMutations ==
    {"createTaskGroup", "updateTaskGroup", "deleteTaskGroup", "upsertTaskConfig",
     "updateTaskConfigGroup"}

\* C21: a read, append or purge call of the Config Store made while the backend is
\* unreachable (no database configured, or the database not answering) returns, returns
\* an empty result and leaves every table as it was.
C21_UnreachableIsNoOp ==
    [][\A n \in 1 .. Len(out') :
          IsDbAnswer(out'[n]) /\ out'[n].fn \in ReadAppendPurge /\ Unreachable(out'[n]) =>
              /\ out'[n].kind = "returned"
              /\ out'[n].result = {}
              /\ UNCHANGED <<taskGroups, taskGroupsAuto, taskConfigs, performanceMetrics,
                             logEntries, localData>>]_vars

\* C22: a mutation call on a TaskGroup or a GroupAssignment made while the backend is
\* unreachable throws to its caller.
C22_UnreachableMutationThrows ==
    \A n \in 1 .. Len(out) :
        IsDbAnswer(out[n]) /\ out[n].fn \in GroupMutations /\ Unreachable(out[n]) =>
            out[n].kind = "threw"

StrictlyIncreasing(ids) == \A i, j \in 1 .. Len(ids) : i < j => ids[i] < ids[j]

\* C23: the stored nextGroupId never decreases, and the ids the Fallback Store has given
\* to new groups are strictly increasing (so each is greater than every earlier one and
\* none is given twice), whatever is deleted and whichever reads and writes fail.
C23_IdCounterMonotonic ==
    [][/\ localData'.nextGroupId >= localData.nextGroupId
       /\ StrictlyIncreasing(issuedLocal')]_vars

\* the assignment of process p that the Fallback Store document holds is not g
LostAssignment(p, g) == localGroupId(localData.configs, p) # g

\* an assignment written by a request in flight, or by the last completed one, that no
\* later assignment of the process and no deletion of the group has replaced is not in
\* the document
LostUpdate ==
    \/ \E c \in Clients :
           /\ reqs[c].op = "updateGroup"
           /\ lastAssign[reqs[c].pm2Id].by = c
           /\ LostAssignment(reqs[c].pm2Id, reqs[c].groupId)
    \/ \E p \in Pm2Ids : lastAssign[p].set /\ LostAssignment(p, lastAssign[p].groupId)

\* the assignments of two callers for different process ids overlap: both are written
\* and neither request has completed
AssignmentsOverlap ==
    /\ \A c \in Clients : reqs[c].op = "updateGroup" /\ lastAssign[reqs[c].pm2Id].by = c
    /\ reqs["c1"].pm2Id # reqs["c2"].pm2Id

DeleteCompletes(c, id) ==
    \/ ~getDb /\ GroupsDelete(c, id)
    \/ reqs[c].op = "delete" /\ reqs[c].id = id /\ GroupsDeleteFinish(c, TRUE)

\* C25: when groups.delete(id) completes, no assignment of the Fallback Store or of the
\* Config Store references id, every process whose merged group was id has group null in
\* the merged view of the new state, and every process whose merged group was another
\* one keeps it.
C25_DeleteCascades ==
    [][\A c \in Clients, id \in GroupIds :
          DeleteCompletes(c, id) =>
              LET dbBefore == getAllTaskConfigs
                  dbAfter == IF getDb THEN taskConfigs' ELSE {}
                  before(p) == listGroupId(localData.configs, dbBefore, p)
                  after(p) == listGroupId(localData'.configs, dbAfter, p)
              IN  /\ \A i \in 1 .. Len(localData'.configs) : localData'.configs[i].groupId # id
                  /\ \A row \in dbAfter : row.groupId # id
                  /\ \A p \in Pm2Ids : before(p) = id => after(p) = NULL
                  /\ \A p \in Pm2Ids : before(p) # id => after(p) = before(p)]_vars

\* the groups.list answers that follow a successful groups.create of the same caller
ListsAfterCreate == {i \in 1 .. Len(out) : out[i].kind = "groups" /\ out[i].made # <<>>}

\* C26: the group a successful groups.create returned is contained in the result of the
\* caller's next groups.list, whichever store served the create; when there was no group
\* before the create, that result is exactly this one group, with the name and color
\* given and a generated id.
C26_CreateListRoundTrip ==
    \A i \in ListsAfterCreate :
        LET made == out[i].made[1]
        IN  /\ made.group \in out[i].groups
            /\ made.fresh => out[i].groups = {made.group}

\* the answers to batch requests
BatchAnswers == {i \in 1 .. Len(out) : "pm2Ids" \in DOMAIN out[i]}

\* the operation on the i-th id of request e succeeds: the supervisor is reached, it has
\* the process, and no earlier delete of the same request removed it
Succeeds(e, i) ==
    /\ e.daemonOk
    /\ e.pm2Ids[i] \in Pm2Ids
    /\ e.before[e.pm2Ids[i]] # "absent"
    /\ e.operation = "delete" => \A j \in 1 .. (i - 1) : e.pm2Ids[j] # e.pm2Ids[i]

FailedAt(e) == SelectSeq([i \in 1 .. Len(e.pm2Ids) |-> i], LAMBDA i : ~Succeeds(e, i))

Occurrences(seq, x) == Cardinality({i \in 1 .. Len(seq) : seq[i] = x})

SameMessages(a, b) ==
    /\ Len(a) = Len(b)
    /\ \A i \in 1 .. Len(a) : Occurrences(a, a[i]) = Occurrences(b, a[i])

\* C27: a batch operation returns a tally; success counts the ids whose operation
\* succeeded, failed those whose operation failed, errors holds one message
\* "Process <id>: <reason>" per failed id, success + failed is the number of ids; every id
\* was attempted (each process whose operation succeeded is in the operation's state); and
\* the request with its ids in any other order gives the same counts and the same
\* messages.
C27_BatchTally ==
    \A a \in BatchAnswers :
        LET e == out[a]
            n == Len(e.pm2Ids)
            failedAt == FailedAt(e)
        IN  /\ e.kind = "tally"
            /\ e.result.success = Cardinality({i \in 1 .. n : Succeeds(e, i)})
            /\ e.result.failed = Len(failedAt)
            /\ e.result.success + e.result.failed = n
            /\ Len(e.result.errors) = Len(failedAt)
            /\ \A k \in 1 .. Len(failedAt) :
                  /\ e.result.errors[k][1] = "Process "
                  /\ e.result.errors[k][2] = e.pm2Ids[failedAt[k]]
            /\ \A p \in Pm2Ids :
                  pm2List[p] = IF \E i \in 1 .. n : e.pm2Ids[i] = p /\ Succeeds(e, i)
                               THEN pm2Apply(e.before, p, e.operation)[p]
                               ELSE e.before[p]
            /\ \A f \in Permutations(1 .. n) :
                  LET other == batchOperation([i \in 1 .. n |-> e.pm2Ids[f[i]]], e.operation,
                                              e.before, e.daemonOk).results
                  IN  /\ other.success = e.result.success
                      /\ other.failed = e.result.failed
                      /\ SameMessages(other.errors, e.result.errors)

\* C28: a purge of the metrics with a cutoff of D days (7 by default) that the database
\* carries out removes every sample older than now minus D days, keeps every sample that
\* is newer and adds none, and leaves the log rows, the groups and the assignments of
\* both stores as they were.
C28_PurgeByAge ==
    [][\A D \in {1, metricsDaysToKeep} :
          getDb /\ DbCleanOldPerformanceMetrics(D, 1) =>
              /\ \A m \in performanceMetrics :
                    /\ m.timestamp < Now - D => m \notin performanceMetrics'
                    /\ m.timestamp > Now - D => m \in performanceMetrics'
              /\ performanceMetrics' \subseteq performanceMetrics
              /\ UNCHANGED <<logEntries, taskGroups, taskConfigs, localData>>]_vars

\* a purge with the default cutoff has returned: the sample of 6 days ago is there, the
\* one of 8 days ago is not, and the log rows, also those older than 7 days, are there
C28_Witness ==
    /\ out = <<Returned("cleanOldPerformanceMetrics", "up", {})>>
    /\ [pm2Id |-> 0, timestamp |-> Now - (metricsDaysToKeep - 1)] \in performanceMetrics
    /\ [pm2Id |-> 0, timestamp |-> Now - (metricsDaysToKeep + 1)] \notin performanceMetrics
    /\ LogFixture \subseteq logEntries

\* the processes-update events of a step's output
UpdatesIn(events) ==
    {i \in 1 .. Len(events) : events[i].kind = "emit" /\ events[i].type = "processes:update"}

\* cycle k reaches the merge in this step, with the snapshots listProcesses returned to it
Merges(k) == \/ cycles[k].pc = "fetch" /\ ~getDb /\ CycleFetch(k, TRUE)
             \/ cycles[k].pc = "configs" /\ CycleConfigs(k, TRUE)

SnapshotsMerged(k) == IF cycles[k].pc = "fetch" THEN listProcesses ELSE cycles[k].processes

\* C29: the processes-update of a cycle has exactly one entry per snapshot that
\* listProcesses returned to the cycle, in the same order and with the snapshot's fields,
\* so it has no entry for a process id that has only an assignment in the Config Store or
\* the Fallback Store, and none for a process missing from the returned list.
C29_ViewIsSnapshotList ==
    [][\A k \in CycleIds :
          Merges(k) =>
              LET processes == SnapshotsMerged(k)
              IN  /\ Cardinality(UpdatesIn(out')) = 1
                  /\ \A u \in UpdatesIn(out') :
                        /\ out'[u].to = cycles[k].sess
                        /\ Len(out'[u].view) = Len(processes)
                        /\ \A i \in 1 .. Len(processes) :
                              /\ out'[u].view[i].pm_id = processes[i].pm_id
                              /\ out'[u].view[i].status = processes[i].status
                        /\ \A p \in Pm2Ids :
                              (\A i \in 1 .. Len(processes) : processes[i].pm_id # p)
                                  => \A i \in 1 .. Len(out'[u].view) : out'[u].view[i].pm_id # p]_vars

\* an update was pushed that has process 0 and not process 1, which the supervisor does
\* not have and which has an assignment in the Config Store
C29_Witness ==
    /\ \E u \in UpdatesIn(out) : /\ Len(out[u].view) = 1
                                /\ out[u].view[1].pm_id = 0
    /\ pm2List[1] = "absent"
    /\ getDb /\ \E c \in taskConfigs : c.pm2Id = 1

\* cycle k takes a step in which the durable store is unavailable: no database is
\* configured when the cycle merges, or the query the cycle awaited has failed
StoreUnavailable(k) ==
    \/ cycles[k].pc = "fetch" /\ ~getDb /\ CycleFetch(k, TRUE)
    \/ cycles[k].pc = "configs" /\ CycleConfigs(k, FALSE)
    \/ cycles[k].pc = "persist" /\ CyclePersist(k, FALSE)

\* C30: while the durable store is unavailable a polling cycle emits no error event,
\* the step in which it would have got the store's assignments pushes a processes-update
\* whose group ids are those of the Fallback Store, and the session's polling timers stay.
C30_StoreDownStillPushes ==
    [][\A k \in CycleIds :
          StoreUnavailable(k) =>
              /\ \A i \in 1 .. Len(out') : ~(out'[i].kind = "emit" /\ out'[i].type = "error")
              /\ cycles[k].pc \in {"fetch", "configs"} =>
                    \E u \in UpdatesIn(out') :
                        /\ out'[u].to = cycles[k].sess
                        /\ \A i \in 1 .. Len(out'[u].view) :
                              out'[u].view[i].groupId =
                                  localGroupId(localData.configs, out'[u].view[i].pm_id)
              /\ \A t \in TimerIds : timers[t] = cycles[k].sess => timers'[t] = cycles[k].sess]_vars

\* C31: groups.create with a color that is not '#' followed by exactly six hexadecimal
\* digits is answered with an error and creates no group in the Config Store or the
\* Fallback Store, and the Fallback Store's id counter stays where it was.
C31_BadColorRejected ==
    [][\A c \in Clients, name \in {"", "web"}, color \in BadColors :
          GroupsCreateRequest(c, name, color) =>
              /\ \E i \in 1 .. Len(out') : out'[i].kind = "error" /\ out'[i].to = c
              /\ \A i \in 1 .. Len(out') : out'[i].kind # "group"
              /\ reqs'[c] = Idle
              /\ UNCHANGED <<taskGroups, taskGroupsAuto, localData, issuedLocal>>]_vars

\* a request was rejected for its input after a group had been created: the stores hold
\* that one group and the Fallback Store's counter is where the creation left it
C31_Witness ==
    /\ out = <<[kind |-> "error", to |-> "c1", message |-> "BAD_REQUEST"]>>
    /\ Cardinality(taskGroups) + Len(localData.groups) = 1
    /\ localData.nextGroupId = 1 + Len(localData.groups)

\* the immediate cycles in progress: runs of fetchAndSendProcesses awaited by monitor:start
ImmediateCycles == {k \in CycleIds : cycles[k].pc # "free" /\ cycles[k].from = "start"}

\* C32: while the immediate cycle of a start-monitoring is in progress the session has no
\* repeating timer, so the cycle's processes-update (or error) comes before any tick of
\* the monitoring period.
C32_ImmediateCycleBeforeTimer ==
    \A k \in ImmediateCycles : ActiveTimers(cycles[k].sess) = {}

\* the kind of the supervisor's stream a live event came from
KindOfEvent(packet) == IF packet.event = "log:err" THEN "stderr" ELSE "stdout"

\* C33: a live event of the requested process is emitted and handed to the store with
\* the kind of the stream it came from: stderr for an event of the error stream, stdout
\* for an event of the standard-output stream, also when its content is empty.
C33_LiveKindIsStreamKind ==
    [][\A b \in BusIds, packet \in Packets, ok \in BOOLEAN :
          buses[b].st = "open" /\ packet.pm_id = buses[b].pm2Id /\ LiveLog(b, packet, ok) =>
              \A i \in 1 .. Len(out') :
                  /\ IsLogLine(out'[i]) => out'[i].logType = KindOfEvent(packet)
                  /\ IsLogCall(out'[i]) => out'[i].row.type = KindOfEvent(packet)]_vars

\* bus b is attached in this step
Attached(b) == buses[b].st # "open" /\ buses'[b].st = "open"

\* C34: the live subscription of a log-stream request is attached only in the step that
\* ends the request's handler, after the last of its files has been replayed or skipped,
\* and a live log-line comes only from a subscription attached before: no live log-line
\* of a request is emitted before the request's last historical log-line.
C34_LiveAfterReplay ==
    [][/\ \A b \in BusIds :
             Attached(b) =>
                 \E k \in StreamIds :
                     /\ streams[k].pc = "bus" /\ streams[k].paths = <<>>
                     /\ streams'[k] = FreeSlot
                     /\ buses'[b].sess = streams[k].sess
                     /\ buses'[b].pm2Id = streams[k].pm2Id
                     /\ \A n \in 1 .. Len(out') : ~IsLogLine(out'[n])
       /\ \A n \in 1 .. Len(out') :
             IsLiveLine(out'[n]) =>
                 \E b \in BusIds : /\ buses[b].st = "open"
                                   /\ buses[b].sess = out'[n].to
                                   /\ buses[b].pm2Id = out'[n].pm2Id]_vars

\* a live log-line is emitted to a session whose request has ended its replay: no
\* handler of the session is in progress, and with a database the replayed line is stored
C34_Witness ==
    /\ \E n \in 1 .. Len(out) : IsLiveLine(out[n]) /\ out[n].to = "s1"
    /\ \A k \in StreamIds : streams[k] = FreeSlot
    /\ getDb /\ logEntries # {}

\* a step of polling cycle k
CycleStep(k) == \E ok \in BOOLEAN : CycleFetch(k, ok) \/ CycleConfigs(k, ok) \/ CyclePersist(k, ok)

\* C35: no step of a polling cycle creates, changes or deletes a group or an assignment in
\* the Config Store or the Fallback Store, or a log row; the only durable rows a cycle
\* adds are metric samples, and it removes none.
C35_CycleLeavesGroupsAlone ==
    [][\A k \in CycleIds :
          CycleStep(k) =>
              /\ UNCHANGED <<taskGroups, taskGroupsAuto, taskConfigs, localData, logEntries>>
              /\ performanceMetrics \subseteq performanceMetrics']_vars

\* a cycle has stored a metric sample while both stores hold an assignment
C35_Witness ==
    /\ \E n \in 1 .. Len(out) : out[n].kind = "insert" /\ out[n].fn = "insertPerformanceMetric"
    /\ performanceMetrics # {}
    /\ taskConfigs # {}
    /\ localData.configs # <<>>

\* C36: the live lines of one log-stream request are stored in arrival order: when the
\* insert of a line is carried out, no line that the same subscription received earlier
\* is still waiting for its insert.
C36_LiveInsertsInArrivalOrder ==
    [][\A n \in 1 .. Len(logInserts) :
          InsertLogEntryAnswer(n, TRUE) =>
              \A m \in 1 .. (n - 1) : logInserts[m].bus # logInserts[n].bus]_vars

\* the polling timer and the log subscription of session b: its handles, its live
\* intervals and its open buses with what they are subscribed to
HoldingsOf(b) ==
    <<monitorInterval[b], ActiveTimers(b), pm2Bus[b], {<<x, buses[x]>> : x \in OpenBuses(b)}>>

\* a step of session a: one of its handlers, a firing of one of its intervals, a step of
\* one of its polling runs or log-stream handlers, or its logHandler receiving an event
SessionStep(a) ==
    \/ Connect(a) \/ MonitorStart(a) \/ MonitorStop(a) \/ LogsStop(a) \/ Disconnect(a)
    \/ \E p \in Pm2Ids, type \in {"stdout", "stderr", "both"} : LogsStream(a, p, type)
    \/ \E t \in TimerIds : timers[t] = a /\ Tick(t)
    \/ \E k \in CycleIds, ok \in BOOLEAN :
          /\ cycles[k].pc # "free" /\ cycles[k].sess = a
          /\ CycleFetch(k, ok) \/ CycleConfigs(k, ok) \/ CyclePersist(k, ok)
    \/ \E k \in StreamIds, ok \in BOOLEAN :
          /\ streams[k].pc # "free" /\ streams[k].sess = a
          /\ StreamDescribe(k, ok) \/ StreamRead(k, ok) \/ StreamSend(k, ok) \/ StreamBus(k, ok)
    \/ \E b \in BusIds, ok \in BOOLEAN :
          buses[b].st = "open" /\ buses[b].sess = a /\ BusDispatch(b, ok)

\* every message of the step goes to session a and every persistence call is made for it
OutOnlyOf(a) ==
    \A n \in 1 .. Len(out') :
        IF out'[n].kind \in {"emit", "handled"} THEN out'[n].to = a ELSE out'[n].by = a

\* C37: sessions are isolated: a step of session a (a command, a polling run, a log-stream
\* handler, a live event) leaves the polling timer and the log subscription of every other
\* session as they are, and what it emits goes to a's observer only.
C37_SessionsIsolated ==
    [][\A a \in Peers :
          SessionStep(a) =>
              /\ OutOnlyOf(a)
              /\ \A b \in Peers \ {a} : HoldingsOf(b)' = HoldingsOf(b)]_vars

\* s1 has polled and streamed and has disconnected; s2 still polls and streams
C37_Witness ==
    /\ sock["s1"] = "disconnected"
    /\ monitorInterval["s1"] # NoTimer
    /\ pm2Bus["s1"] # NoBus
    /\ Monitoring("s2")
    /\ Streaming("s2")

\* the process ids of a merged list with the group id reported for each
GroupIdsOf(view) == [i \in 1 .. Len(view) |-> <<view[i].pm_id, view[i].groupId>>]

\* C38: over the same supervisor snapshots and the same assignments in the two stores, the
\* answer of processes.list reports for every process the group id the merge of a polling
\* cycle reports, and a pushed update reports the group id the merge of processes.list
\* reports.
C38_MergesAgree ==
    \A n \in 1 .. Len(out) :
        /\ out[n].kind = "list" =>
              GroupIdsOf(out[n].view)
                = GroupIdsOf(processesWithGroups(listProcesses, getAllTaskConfigs,
                                                 getAllTaskConfigsLocal))
        /\ (out[n].kind = "emit" /\ out[n].type = "processes:update") =>
              GroupIdsOf(out[n].view)
                = GroupIdsOf(processesListView(listProcesses, getAllTaskConfigs,
                                               getAllTaskConfigsLocal))

\* processes.list has answered where the stores disagree: process 0 has a null entry in
\* the data file and group 1 in task_configs, process 1 has group 2 in the data file and
\* group 1 in task_configs
C38_Witness ==
    /\ \E n \in 1 .. Len(out) :
          /\ out[n].kind = "list"
          /\ GroupIdsOf(out[n].view) = <<<<0, 1>>, <<1, 2>>>>
    /\ localGroupId(getAllTaskConfigsLocal, 0) = NULL
    /\ \E i \in 1 .. Len(localData.configs) : localData.configs[i].pm2Id = 0
    /\ dbGroupId(getAllTaskConfigs, 1) = 1

\* the groups of the data file, as a set
LocalGroups(data) == {data.groups[i] : i \in 1 .. Len(data.groups)}

\* the groups a step takes away from task_groups and from the data file
RemovedGroups ==
    (taskGroups \ taskGroups') \cup (LocalGroups(localData) \ LocalGroups(localData'))

\* C39: groups.delete(id) removes at most one group across the two stores: the step that
\* carries the deletion out takes no two different groups away from task_groups and the
\* data file together (a group that a failed creation left in both stores counts once).
C39_DeleteRemovesAtMostOne ==
    [][\A c \in Callers, ok \in BOOLEAN :
          (GroupsDeleteFinish(c, ok) \/ \E id \in GroupIds : GroupsDelete(c, id)) =>
              \A g, h \in RemovedGroups : g.name = h.name]_vars

====
